---------------------------- MODULE Spec2Model ----------------------------
(***************************************************************************)
(* Model of the dynamic schema-normalization pipeline of text2sql-analytics *)
(* (src/src/dynamic_normalization_pipeline.py, src/src/utils.py).           *)
(*                                                                         *)
(* A pandas Series is a record [dtype, vals]; a DataFrame is the sequence  *)
(* of its columns [name, dtype, vals] in declaration order.  Python dicts  *)
(* are sequences of [k, v] pairs in insertion order, which is the order    *)
(* the code iterates them in.                                              *)
(***************************************************************************)
EXTENDS Integers, Sequences, FiniteSets, TLC

(***************************************************************************)
(* Bounds of the model.                                                    *)
(***************************************************************************)
MaxRows == 2        \* rows of a sheet in the key-selection workbooks
MaxCols == 2        \* columns of a sheet in the key-selection workbooks
MaxKey == 3         \* key values 1..MaxKey in the relationship workbooks
MaxDistinct == 10   \* distinct child values in the threshold workbooks
MaxLen == 2         \* cells of a column handed to infer_sql_type alone

(***************************************************************************)
(* Cells.  A number is hi * Limb + lo + frac / 10 with 0 <= lo < Limb, so  *)
(* that values around 2^31 are exact; text is a string; a timestamp cell   *)
(* carries its ISO text.  Null is pandas' NaN / None / NaT.                *)
(***************************************************************************)
Limb == 2^16

Null == [kind |-> "null", hi |-> 0, lo |-> 0, frac |-> 0, txt |-> ""]

Num(n) == [kind |-> "num", hi |-> 0, lo |-> n, frac |-> 0, txt |-> ""]

Big(h, l) == [kind |-> "num", hi |-> h, lo |-> l, frac |-> 0, txt |-> ""]

Frac(n, f) == [kind |-> "num", hi |-> 0, lo |-> n, frac |-> f, txt |-> ""]

Str(s) == [kind |-> "str", hi |-> 0, lo |-> 0, frac |-> 0, txt |-> s]

Bool(b) == [kind |-> "bool", hi |-> 0, lo |-> IF b THEN 1 ELSE 0, frac |-> 0, txt |-> ""]

Ts(s) == [kind |-> "ts", hi |-> 0, lo |-> 0, frac |-> 0, txt |-> s]

Range(f) == {f[i] : i \in DOMAIN f}

\* Series.isna()
isna(c) == c.kind = "null"

\* Series.dropna()
dropna(vals) == SelectSeq(vals, LAMBDA c : ~isna(c))

\* Series.isna().any()
hasnull(vals) == \E i \in DOMAIN vals : isna(vals[i])

\* Series.is_unique: no value occurs twice, NaN counting as a value
is_unique(vals) == \A i, j \in DOMAIN vals : i # j => vals[i] # vals[j]

\* set(Series.dropna().unique().tolist())
valueset(vals) == {vals[i] : i \in {j \in DOMAIN vals : ~isna(vals[j])}}

(***************************************************************************)
(* The dtype pandas gives a column it reads: bool and int64 hold no nulls, *)
(* numbers with a null or a fraction are float64, timestamps are           *)
(* datetime64, an all-null column is float64, everything else is object.   *)
(***************************************************************************)
DtypeOf(vals) ==
  LET s == dropna(vals)
      all(k) == \A i \in DOMAIN s : s[i].kind = k
  IN  IF vals = <<>> THEN "object"
      ELSE IF s = <<>> THEN "float64"
      ELSE IF all("bool") /\ ~hasnull(vals) THEN "bool"
      ELSE IF all("num") /\ ~hasnull(vals) /\ \A i \in DOMAIN s : s[i].frac = 0 THEN "int64"
      ELSE IF all("num") THEN "float64"
      ELSE IF all("ts") THEN "datetime64"
      ELSE "object"

Series(vals) == [dtype |-> DtypeOf(vals), vals |-> vals]

Column(name, vals) == [name |-> name, dtype |-> DtypeOf(vals), vals |-> vals]

(***************************************************************************)
(* Strings.                                                                *)
(***************************************************************************)
CharAt(s, i) == SubSeq(s, i, i)

endswith(s, suf) ==
  Len(s) >= Len(suf) /\ SubSeq(s, Len(s) - Len(suf) + 1, Len(s)) = suf

Letters == "abcdefghijklmnopqrstuvwxyzABCDEFGHIJKLMNOPQRSTUVWXYZ"

IsLetter(ch) == \E i \in 1..Len(Letters) : CharAt(Letters, i) = ch

HasLetter(s) == \E i \in 1..Len(s) : IsLetter(CharAt(s, i))

RECURSIVE Rep(_, _)
Rep(ch, n) ==
  IF n = 0 THEN ""
  ELSE IF n % 2 = 0 THEN LET half == Rep(ch, n \div 2) IN half \o half
  ELSE ch \o Rep(ch, n - 1)

Digits == "0123456789"

IsDigit(ch) == \E i \in 1..Len(Digits) : CharAt(Digits, i) = ch

AllDigits(s) == \A i \in 1..Len(s) : IsDigit(CharAt(s, i))

(***************************************************************************)
(* src/src/utils.py                                                        *)
(***************************************************************************)

\* _ID_HINTS = re.compile(r"(?:^|_)(id|.*_id)$"), used as _ID_HINTS.search(col):
\* at the start of the name or right after an underscore, the rest of the
\* name is "id" or ends in "_id".
ID_HINTS(col) ==
  \E i \in 0..Len(col) :
    /\ i = 0 \/ CharAt(col, i) = "_"
    /\ LET rest == SubSeq(col, i + 1, Len(col))
       IN  rest = "id" \/ endswith(rest, "_id")

Upper == "ABCDEFGHIJKLMNOPQRSTUVWXYZ"

\* str.lower() on one character
lower(ch) ==
  IF \E i \in 1..Len(Upper) : CharAt(Upper, i) = ch
  THEN LET i == CHOOSE i \in 1..Len(Upper) : CharAt(Upper, i) = ch
       IN  CharAt(Letters, i)
  ELSE ch

\* str.strip(): the string without its leading and trailing blanks
strip(s) ==
  LET keep == {i \in 1..Len(s) : CharAt(s, i) # " "}
  IN  IF keep = {} THEN ""
      ELSE LET lo == CHOOSE i \in keep : \A j \in keep : i <= j
               hi == CHOOSE i \in keep : \A j \in keep : j <= i
           IN  SubSeq(s, lo, hi)

\* str.lower() of a string
RECURSIVE lower_str(_)
lower_str(s) ==
  IF s = "" THEN "" ELSE lower(CharAt(s, 1)) \o lower_str(SubSeq(s, 2, Len(s)))

\* re.sub(r"[^a-z0-9_]", "_", .) on one character
safe_char(ch) ==
  IF (IsLetter(ch) /\ lower(ch) = ch) \/ IsDigit(ch) \/ ch = "_" THEN ch ELSE "_"

\* SAFE_NAME(s) = re.sub(r"[^a-z0-9_]", "_", str(s).lower().strip())
RECURSIVE safe_chars(_)
safe_chars(s) ==
  IF s = "" THEN "" ELSE safe_char(CharAt(s, 1)) \o safe_chars(SubSeq(s, 2, Len(s)))

SAFE_NAME(s) == safe_chars(strip(lower_str(s)))

\* The order of numbers: a <= b
NumLE(a, b) ==
  \/ a.hi < b.hi
  \/ a.hi = b.hi /\ a.lo < b.lo
  \/ a.hi = b.hi /\ a.lo = b.lo /\ a.frac <= b.frac

\* Series.min() and Series.max() of a non-empty numeric column
smin(vals) == CHOOSE m \in Range(vals) : \A v \in Range(vals) : NumLE(m, v)

smax(vals) == CHOOSE m \in Range(vals) : \A v \in Range(vals) : NumLE(v, m)

\* is_int_like(series)
is_int_like(s) ==
  IF s.dtype = "int64" THEN TRUE
  ELSE IF s.dtype = "float64"
       THEN LET d == dropna(s.vals) IN \A i \in DOMAIN d : d[i].frac = 0
       ELSE FALSE

(***************************************************************************)
(* pd.to_datetime(s, errors="coerce") on one cell: a timestamp stays what  *)
(* it is; text parses when it is an ISO date "YYYY-MM-DD", an ISO date and *)
(* time "YYYY-MM-DD HH:MM", or a month-name date "Mon D YYYY"; everything  *)
(* else (other text, a bool object) is coerced to NaT.                     *)
(***************************************************************************)
IsIsoDate(s) ==
  /\ Len(s) = 10
  /\ AllDigits(SubSeq(s, 1, 4)) /\ CharAt(s, 5) = "-"
  /\ AllDigits(SubSeq(s, 6, 7)) /\ CharAt(s, 8) = "-"
  /\ AllDigits(SubSeq(s, 9, 10))

IsIsoDateTime(s) ==
  /\ Len(s) = 16
  /\ IsIsoDate(SubSeq(s, 1, 10)) /\ CharAt(s, 11) = " "
  /\ AllDigits(SubSeq(s, 12, 13)) /\ CharAt(s, 14) = ":"
  /\ AllDigits(SubSeq(s, 15, 16))

Months == {"Jan", "Feb", "Mar", "Apr", "May", "Jun", "Jul", "Aug", "Sep", "Oct", "Nov", "Dec"}

IsMonthDate(s) ==
  /\ Len(s) = 10
  /\ SubSeq(s, 1, 3) \in Months /\ CharAt(s, 4) = " "
  /\ IsDigit(CharAt(s, 5)) /\ CharAt(s, 6) = " "
  /\ AllDigits(SubSeq(s, 7, 10))

\* The parsed value: NaT, or the time of day ("00:00" is midnight)
NaT == "NaT"

to_datetime(c) ==
  IF c.kind \in {"str", "ts"}
  THEN IF IsIsoDate(c.txt) \/ IsMonthDate(c.txt) THEN "00:00"
       ELSE IF IsIsoDateTime(c.txt) THEN SubSeq(c.txt, 12, 16)
       ELSE NaT
  ELSE NaT

\* Series.astype(str) on one cell of an object column
astype_str(c) ==
  IF c.kind = "bool" THEN (IF c.lo = 1 THEN "True" ELSE "False") ELSE c.txt

\* s2.str.len().max()
maxstrlen(vals) ==
  LET lens == {Len(astype_str(vals[i])) : i \in DOMAIN vals}
  IN  CHOOSE m \in lens : \A l \in lens : l <= m

\* 2**31 in limbs: a number n with 0 <= n.lo < Limb is below 2**31 iff
\* n.hi < TwoPow31, and at least -(2**31) iff n.hi >= -TwoPow31
TwoPow31 == 2^15

\* infer_sql_type with the upper bound taken inclusive: vmax <= 2**31
infer_sql_type_wide(series) ==
  LET s == [dtype |-> series.dtype, vals |-> dropna(series.vals)]
  IN  IF s.vals = <<>> THEN "TEXT"
      ELSE IF s.dtype = "bool" THEN "BOOLEAN"
      ELSE IF is_int_like(s)
           THEN LET vmin == smin(s.vals)
                    vmax == smax(s.vals)
                IN  IF -TwoPow31 <= vmin.hi
                       /\ (vmax.hi < TwoPow31 \/ (vmax.hi = TwoPow31 /\ vmax.lo = 0))
                    THEN "INTEGER" ELSE "BIGINT"
      ELSE IF s.dtype = "float64" THEN "NUMERIC(18,6)"
      ELSE LET dt == [i \in DOMAIN s.vals |-> to_datetime(s.vals[i])]
           IN  IF ~(\A i \in DOMAIN dt : dt[i] = NaT)
               THEN IF \A i \in DOMAIN dt : dt[i] = "00:00"
                    THEN "DATE" ELSE "TIMESTAMPTZ"
               ELSE LET maxlen == maxstrlen(s.vals)
                    IN  IF maxlen <= 255
                        THEN IF maxlen <= 50 THEN "VARCHAR(50)"
                             ELSE IF maxlen <= 100 THEN "VARCHAR(100)"
                             ELSE "VARCHAR(255)"
                        ELSE "TEXT"

\* infer_sql_type(series)
infer_sql_type(series) ==
  LET s == [dtype |-> series.dtype, vals |-> dropna(series.vals)]
  IN  IF s.vals = <<>> THEN "TEXT"
      ELSE IF s.dtype = "bool" THEN "BOOLEAN"
      ELSE IF is_int_like(s)
           THEN LET vmin == smin(s.vals)
                    vmax == smax(s.vals)
                IN  IF -TwoPow31 <= vmin.hi /\ vmax.hi < TwoPow31
                    THEN "INTEGER" ELSE "BIGINT"
      ELSE IF s.dtype = "float64" THEN "NUMERIC(18,6)"
      ELSE LET dt == [i \in DOMAIN s.vals |-> to_datetime(s.vals[i])]
           IN  IF ~(\A i \in DOMAIN dt : dt[i] = NaT)
               THEN IF \A i \in DOMAIN dt : dt[i] = "00:00"
                    THEN "DATE" ELSE "TIMESTAMPTZ"
               ELSE LET maxlen == maxstrlen(s.vals)
                    IN  IF maxlen <= 255
                        THEN IF maxlen <= 50 THEN "VARCHAR(50)"
                             ELSE IF maxlen <= 100 THEN "VARCHAR(100)"
                             ELSE "VARCHAR(255)"
                        ELSE "TEXT"

\* pk_score(colname, unique, notnull, table)
pk_score(colname, unique, notnull, table) ==
    (IF unique /\ notnull THEN 3 ELSE 0)
  + (IF colname = "id" THEN 3 ELSE 0)
  + (IF endswith(colname, "_id") THEN 2 ELSE 0)
  + (IF colname = table \o "id" THEN 2 ELSE 0)

(***************************************************************************)
(* Python dicts: sequences of [k, v] pairs in insertion order.             *)
(***************************************************************************)
Keys(d) == {d[i].k : i \in DOMAIN d}

Get(d, key) == d[CHOOSE i \in DOMAIN d : d[i].k = key].v

\* d[key] = val: a new key is appended, a known key keeps its place
Put(d, key, val) ==
  IF key \in Keys(d)
  THEN [i \in DOMAIN d |-> IF d[i].k = key THEN [k |-> key, v |-> val] ELSE d[i]]
  ELSE Append(d, [k |-> key, v |-> val])

\* df.columns
columns(df) == [i \in DOMAIN df |-> df[i].name]

\* df[c]
col(df, c) == df[CHOOSE i \in DOMAIN df : df[i].name = c]

\* len(df): the number of rows
nrows(df) == IF df = <<>> THEN 0 ELSE Len(df[1].vals)

\* None, and the truth value Python gives a column name or None
None == "<None>"

truthy(x) == x # None /\ x # ""

(***************************************************************************)
(* src/src/dynamic_normalization_pipeline.py                               *)
(***************************************************************************)
VARIABLES
  pc,          \* how far main() has come: new, loaded, typed, keyed, linked,
               \* measured, reported, schema, done, seeded; for the declared
               \* pass the last call made: loaded, nulls, checked, seeded;
               \* raised after an exception
  cfg,         \* self.cfg: DynConfig, fk_match_threshold as the fraction num/den
  tables,      \* self.tables
  col_types,   \* self.col_types
  pks,         \* self.pks
  fks,         \* self.fks
  metrics,     \* self.metrics
  files,       \* the files written, path -> content
  series,      \* a column handed to infer_sql_type on its own
  inferred,    \* what infer_sql_type returned for it
  book,        \* the workbook load_excel read last
  first,       \* what the runs of main() before this one left: one record each
  db,          \* the database seed_database fills: the tables inserted, in order
  ri_findings, \* NormalizationPipeline.ri_findings
  raw_sql,     \* the arguments of sanitize_query: [sql, max_limit]
  safe_sql,    \* how sanitize_query ended: [state, sql]
  cache,       \* Text2SQLEngine.cache: the keys the lru_cache holds, oldest first
  history,     \* the rows of the history table, in insertion order
  executed,    \* the statements read from the database by pd.read_sql, in order
  payload      \* how the calls of Text2SQLEngine.run ended, one record each

vars ==
  <<pc, cfg, tables, col_types, pks, fks, metrics, files, series, inferred, book, first,
    db, ri_findings, raw_sql, safe_sql, cache, history, executed, payload>>

\* The variables outside DynamicNormalizationPipeline and its files
others == <<db, ri_findings, raw_sql, safe_sql, cache, history, executed, payload>>

\* Nothing seeded, checked, sanitized or asked yet
NoQuery == [sql |-> <<>>, max_limit |-> 0]

NotCalled == [state |-> "none", sql |-> <<>>]

OthersInit ==
  /\ db = <<>>
  /\ ri_findings = <<>>
  /\ raw_sql = NoQuery
  /\ safe_sql = NotCalled
  /\ cache = <<>>
  /\ history = <<>>
  /\ executed = <<>>
  /\ payload = <<>>

\* DynConfig(): the defaults
DynConfig ==
  [normalize_columns |-> TRUE, fk_match_threshold |-> [num |-> 4, den |-> 5],
   build_gin_for_text |-> TRUE, add_audit_cols |-> TRUE]

\* DynamicNormalizationPipeline.__init__
PipelineInit(config) ==
  /\ pc = "new"
  /\ cfg = config
  /\ tables = <<>>
  /\ col_types = <<>>
  /\ pks = <<>>
  /\ fks = <<>>
  /\ metrics = <<>>

\* One sheet of load_excel: read it, normalise its names, store it
load_sheet(tabs, sheet) ==
  LET tname == SAFE_NAME(sheet.name)
      df == [i \in DOMAIN sheet.cols |->
               Column(IF cfg.normalize_columns
                      THEN SAFE_NAME(sheet.cols[i].name) ELSE sheet.cols[i].name,
                      sheet.cols[i].vals)]
  IN  Put(tabs, tname, df)

RECURSIVE load_sheets(_, _, _)
load_sheets(tabs, wb, i) ==
  IF i > Len(wb) THEN tabs ELSE load_sheets(load_sheet(tabs, wb[i]), wb, i + 1)

\* load_excel(path)
load_excel(wb) ==
  /\ tables' = load_sheets(tables, wb, 1)
  /\ pc' = "loaded"
  /\ book' = wb
  /\ UNCHANGED <<cfg, col_types, pks, fks, metrics, files, series, inferred, first, others>>

\* df[c] is a DataFrame, not a Series, when several columns of df are named c
is_frame(df, c) == Cardinality({i \in DOMAIN df : df[i].name = c}) > 1

\* DataFrame.dropna().empty for the frame df[c]: no row has a value in every
\* column named c
frame_dropna_empty(df, c) ==
  \A r \in 1..nrows(df) : \E i \in DOMAIN df : df[i].name = c /\ isna(df[i].vals[r])

\* infer_sql_type(df[c]) raises: a frame passes the dtype tests as neither
\* bool nor number, pd.to_datetime fails inside the try, and s2.str raises
\* AttributeError, unless the frame was empty and "TEXT" was returned
sql_type_raises(df, c) == is_frame(df, c) /\ ~frame_dropna_empty(df, c)

\* infer_sql_type(df[c]) when it returns
sql_type_of(df, i) ==
  IF is_frame(df, df[i].name) THEN "TEXT"
  ELSE infer_sql_type([dtype |-> df[i].dtype, vals |-> df[i].vals])

\* {c: infer_sql_type(df[c]) for c in df.columns}: the dict after the first
\* i - 1 columns is d
RECURSIVE types_of_from(_, _, _)
types_of_from(df, d, i) ==
  IF i > Len(df) THEN d
  ELSE types_of_from(df, Put(d, df[i].name, sql_type_of(df, i)), i + 1)

types_of(df) == types_of_from(df, <<>>, 1)

\* The first table, in load order, for which infer_column_types raises; 0 if none
types_raise_at ==
  LET bad == {i \in DOMAIN tables :
                \E j \in DOMAIN tables[i].v : sql_type_raises(tables[i].v, tables[i].v[j].name)}
  IN  IF bad = {} THEN 0 ELSE CHOOSE i \in bad : \A j \in bad : i <= j

\* The loop of infer_column_types over the tables i .. last
RECURSIVE column_types(_, _, _)
column_types(ct, i, last) ==
  IF i > last THEN ct
  ELSE column_types(Put(ct, tables[i].k, types_of(tables[i].v)), i + 1, last)

\* infer_column_types(): the first step of run_all, on the tables loaded
\* before it (none when nothing was loaded); an exception ends the run
infer_column_types ==
  /\ pc \in {"new", "loaded"}
  /\ IF types_raise_at = 0
     THEN /\ col_types' = column_types(col_types, 1, Len(tables))
          /\ pc' = "typed"
     ELSE /\ col_types' = column_types(col_types, 1, types_raise_at - 1)
          /\ pc' = "raised"
  /\ UNCHANGED <<cfg, tables, pks, fks, metrics, files, series, inferred, book, first, others>>

\* The scoring loop with score >= best[0]: the last of the best columns wins
RECURSIVE best_column_last(_, _, _, _)
best_column_last(df, t, i, best) ==
  IF i > Len(df) THEN best
  ELSE LET c == df[i]
           score == pk_score(c.name, is_unique(c.vals), ~hasnull(c.vals), t)
       IN  best_column_last(df, t, i + 1,
                            IF score >= best.score THEN [score |-> score, col |-> c.name]
                            ELSE best)

\* The scoring loop of infer_primary_keys: best = (score, column)
RECURSIVE best_column(_, _, _, _)
best_column(df, t, i, best) ==
  IF i > Len(df) THEN best
  ELSE LET c == df[i]
           score == pk_score(c.name, is_unique(c.vals), ~hasnull(c.vals), t)
       IN  best_column(df, t, i + 1,
                       IF score > best.score THEN [score |-> score, col |-> c.name]
                       ELSE best)

\* str(i) for i >= 0
RECURSIVE str(_)
str(i) ==
  IF i < 10 THEN CharAt(Digits, i + 1)
  ELSE str(i \div 10) \o CharAt(Digits, (i % 10) + 1)

\* The name of the surrogate key: "id", or the first of id2, id3, ... that is free
RECURSIVE synth_name(_, _)
synth_name(df, i) ==
  LET synth == IF i = 1 THEN "id" ELSE "id" \o str(i)
  IN  IF synth \in Range(columns(df)) THEN synth_name(df, i + 1) ELSE synth

\* df.insert(0, synth, range(1, len(df)+1))
insert_surrogate(df, synth) ==
  <<[name |-> synth, dtype |-> "int64", vals |-> [r \in 1..nrows(df) |-> Num(r)]]>> \o df

\* One table of infer_primary_keys, on st = [tables, col_types, pks]
primary_key(st, i) ==
  LET t == st.tables[i].k
      df == st.tables[i].v
      best == best_column(df, t, 1, [score |-> -1, col |-> None])
  IN  IF truthy(best.col)
      THEN [st EXCEPT !.pks = Put(st.pks, t, best.col)]
      ELSE LET synth == synth_name(df, 1)
           IN  [tables |-> Put(st.tables, t, insert_surrogate(df, synth)),
                col_types |-> Put(st.col_types, t,
                                  Put(Get(st.col_types, t), synth, "BIGSERIAL")),
                pks |-> Put(st.pks, t, synth)]

\* The first table, in load order, for which infer_primary_keys raises:
\* df[c].is_unique is an AttributeError when df[c] is a frame; 0 if none
keys_raise_at ==
  LET bad == {i \in DOMAIN tables :
                \E j \in DOMAIN tables[i].v : is_frame(tables[i].v, tables[i].v[j].name)}
  IN  IF bad = {} THEN 0 ELSE CHOOSE i \in bad : \A j \in bad : i <= j

\* The loop of infer_primary_keys over the tables i .. last
RECURSIVE primary_keys(_, _, _)
primary_keys(st, i, last) ==
  IF i > last THEN st ELSE primary_keys(primary_key(st, i), i + 1, last)

\* infer_primary_keys(); an exception ends the run
infer_primary_keys ==
  /\ pc = "typed"
  /\ LET last == IF keys_raise_at = 0 THEN Len(tables) ELSE keys_raise_at - 1
         st == primary_keys([tables |-> tables, col_types |-> col_types, pks |-> pks], 1, last)
     IN  /\ tables' = st.tables
         /\ col_types' = st.col_types
         /\ pks' = st.pks
  /\ pc' = IF keys_raise_at = 0 THEN "keyed" ELSE "raised"
  /\ UNCHANGED <<cfg, fks, metrics, files, series, inferred, book, first, others>>

\* pk_sets[pt]
pk_set(pt) == valueset(col(Get(tables, pt), Get(pks, pt)).vals)

\* hit / max(1, len(child_vals)) >= threshold, as the mutants of the parent
\* loop compute it
hit_ratio_reached(child_vals, parent_vals) ==
  Cardinality(child_vals \cap parent_vals) * cfg.fk_match_threshold.den
    >= cfg.fk_match_threshold.num * Cardinality(child_vals)

\* The comparison with the threshold made strict: frac > threshold
reaches_threshold_strict(child_vals, parent_vals) ==
  LET hit == Cardinality(child_vals \cap parent_vals)
      n == IF Cardinality(child_vals) >= 1 THEN Cardinality(child_vals) ELSE 1
  IN  hit * cfg.fk_match_threshold.den > cfg.fk_match_threshold.num * n

\* frac >= self.cfg.fk_match_threshold, with frac = hit / max(1, len(child_vals));
\* both sides are exact in the fraction num/den
reaches_threshold(child_vals, parent_vals) ==
  LET hit == Cardinality(child_vals \cap parent_vals)
      n == IF Cardinality(child_vals) >= 1 THEN Cardinality(child_vals) ELSE 1
  IN  hit * cfg.fk_match_threshold.den >= cfg.fk_match_threshold.num * n

\* The loop over the parents without its break: every parent that reaches
\* the threshold gets an edge
RECURSIVE parent_edges_no_break(_, _, _)
parent_edges_no_break(ct, c, i) ==
  IF i > Len(pks) THEN <<>>
  ELSE LET pt == pks[i].k
           child_vals == valueset(c.vals)
       IN  IF pt = ct \/ child_vals = {} THEN parent_edges_no_break(ct, c, i + 1)
           ELSE IF hit_ratio_reached(child_vals, pk_set(pt))
                THEN <<[col |-> c.name, pt |-> pt, parent_pk |-> pks[i].v]>>
                     \o parent_edges_no_break(ct, c, i + 1)
                ELSE parent_edges_no_break(ct, c, i + 1)

\* The loop over the parents without its skip of the child's own table
RECURSIVE parent_edges_with_self(_, _, _)
parent_edges_with_self(ct, c, i) ==
  IF i > Len(pks) THEN <<>>
  ELSE LET pt == pks[i].k
           child_vals == valueset(c.vals)
       IN  IF child_vals = {} THEN parent_edges_with_self(ct, c, i + 1)
           ELSE IF hit_ratio_reached(child_vals, pk_set(pt))
                THEN <<[col |-> c.name, pt |-> pt, parent_pk |-> pks[i].v]>>
                ELSE parent_edges_with_self(ct, c, i + 1)

\* The loop over the parents of one child column: the edges it appends
RECURSIVE parent_edges(_, _, _)
parent_edges(ct, c, i) ==
  IF i > Len(pks) THEN <<>>
  ELSE LET pt == pks[i].k
           parent_pk == pks[i].v
           child_vals == valueset(c.vals)
       IN  IF pt = ct THEN parent_edges(ct, c, i + 1)
           ELSE IF child_vals = {} THEN parent_edges(ct, c, i + 1)
           ELSE IF reaches_threshold(child_vals, pk_set(pt))
                THEN <<[col |-> c.name, pt |-> pt, parent_pk |-> parent_pk]>>
                ELSE parent_edges(ct, c, i + 1)

\* Whether infer_foreign_keys tests a column of table ct against the parents
is_candidate(ct, c) == c # Get(pks, ct) /\ ID_HINTS(c)

\* The loop over the columns of one child table
RECURSIVE table_edges(_, _, _)
table_edges(ct, df, j) ==
  IF j > Len(df) THEN <<>>
  ELSE (IF is_candidate(ct, df[j].name) THEN parent_edges(ct, df[j], 1) ELSE <<>>)
       \o table_edges(ct, df, j + 1)

\* infer_foreign_keys()
infer_foreign_keys ==
  /\ pc = "keyed"
  /\ fks' = [i \in DOMAIN tables |->
               [k |-> tables[i].k, v |-> table_edges(tables[i].k, tables[i].v, 1)]]
  /\ pc' = "linked"
  /\ UNCHANGED <<cfg, tables, col_types, pks, metrics, files, series, inferred, book, first, others>>

\* dict.get(key, default)
GetOr(d, key, default) == IF key \in Keys(d) THEN Get(d, key) ELSE default

\* collect_metrics() called before infer_foreign_keys
collect_metrics_early ==
  /\ pc = "keyed"
  /\ metrics' = [i \in DOMAIN tables |->
                   [k |-> tables[i].k,
                    v |-> [rows |-> nrows(tables[i].v), cols |-> Len(tables[i].v),
                           pk |-> GetOr(pks, tables[i].k, None),
                           fks |-> GetOr(fks, tables[i].k, <<>>)]]]
  /\ pc' = "measured"
  /\ UNCHANGED <<cfg, tables, col_types, pks, fks, files, series, inferred, book, first, others>>

\* collect_metrics()
collect_metrics ==
  /\ pc = "linked"
  /\ metrics' = [i \in DOMAIN tables |->
                   [k |-> tables[i].k,
                    v |-> [rows |-> nrows(tables[i].v), cols |-> Len(tables[i].v),
                           pk |-> GetOr(pks, tables[i].k, None),
                           fks |-> GetOr(fks, tables[i].k, <<>>)]]]
  /\ pc' = "measured"
  /\ UNCHANGED <<cfg, tables, col_types, pks, fks, files, series, inferred, book, first, others>>

\* write_report(out_dir): the object dumped to out_dir/dynamic_report.json
write_report ==
  /\ pc = "measured"
  /\ files' = Put(files, "out/dynamic_report.json",
                  [metrics |-> metrics, pks |-> pks, fks |-> fks, types |-> col_types])
  /\ pc' = "reported"
  /\ UNCHANGED <<cfg, tables, col_types, pks, fks, metrics, series, inferred, book, first, others>>

\* sep.join(lines)
RECURSIVE join(_, _)
join(sep, lines) ==
  IF lines = <<>> THEN ""
  ELSE IF Len(lines) = 1 THEN lines[1]
  ELSE lines[1] \o sep \o join(sep, Tail(lines))

\* The list cols with every column annotated NOT NULL
emit_elements_not_null(t) ==
  LET df == Get(tables, t)
      pk == Get(pks, t)
      colline(c) == "  " \o c.name \o " " \o GetOr(Get(col_types, t), c.name, "TEXT")
                    \o " NOT NULL"
      edge(e) == "  ,FOREIGN KEY (" \o e.col \o ") REFERENCES " \o e.pt \o "("
                 \o e.parent_pk \o ") ON UPDATE CASCADE ON DELETE RESTRICT"
      edges == GetOr(fks, t, <<>>)
  IN  [i \in DOMAIN df |-> colline(df[i])]
      \o (IF cfg.add_audit_cols
          THEN <<"  created_at TIMESTAMPTZ NOT NULL DEFAULT now()",
                 "  updated_at TIMESTAMPTZ NOT NULL DEFAULT now()">>
          ELSE <<>>)
      \o <<"  PRIMARY KEY (" \o pk \o ")">>
      \o [i \in DOMAIN edges |-> edge(edges[i])]

\* The list cols of _emit_table_sql(t): the elements of the statement
emit_elements(t) ==
  LET df == Get(tables, t)
      pk == Get(pks, t)
      colline(c) == "  " \o c.name \o " " \o GetOr(Get(col_types, t), c.name, "TEXT")
                    \o (IF ~hasnull(c.vals) THEN " NOT NULL" ELSE "")
      edge(e) == "  ,FOREIGN KEY (" \o e.col \o ") REFERENCES " \o e.pt \o "("
                 \o e.parent_pk \o ") ON UPDATE CASCADE ON DELETE RESTRICT"
      edges == GetOr(fks, t, <<>>)
  IN  [i \in DOMAIN df |-> colline(df[i])]
      \o (IF cfg.add_audit_cols
          THEN <<"  created_at TIMESTAMPTZ NOT NULL DEFAULT now()",
                 "  updated_at TIMESTAMPTZ NOT NULL DEFAULT now()">>
          ELSE <<>>)
      \o <<"  PRIMARY KEY (" \o pk \o ")">>
      \o [i \in DOMAIN edges |-> edge(edges[i])]

\* _emit_table_sql(t)
emit_table_sql(t) ==
  "CREATE TABLE IF NOT EXISTS " \o t \o " (\n" \o join(",\n", emit_elements(t)) \o "\n);"

\* export_schema_sql(out_dir)
export_schema_sql ==
  /\ pc = "reported"
  /\ files' = Put(files, "data/schema/01_tables.sql",
                  "-- Auto-generated schema (dynamic)\n"
                  \o join("\n\n", [i \in DOMAIN tables |-> emit_table_sql(tables[i].k)])
                  \o "\n")
  /\ pc' = "schema"
  /\ UNCHANGED <<cfg, tables, col_types, pks, fks, metrics, series, inferred, book, first, others>>

\* The lines for one table with the index put on the parent's key column
RECURSIVE index_lines_on_parent_key(_, _, _)
index_lines_on_parent_key(t, edges, i) ==
  IF i > Len(edges) THEN <<>>
  ELSE <<"CREATE INDEX IF NOT EXISTS idx_" \o t \o "_" \o edges[i].parent_pk \o " ON " \o t
         \o "(" \o edges[i].parent_pk \o ");">>
       \o index_lines_on_parent_key(t, edges, i + 1)

\* The lines export_indexes_sql adds for one table
RECURSIVE index_lines(_, _, _)
index_lines(t, edges, i) ==
  IF i > Len(edges) THEN <<>>
  ELSE <<"CREATE INDEX IF NOT EXISTS idx_" \o t \o "_" \o edges[i].col \o " ON " \o t
         \o "(" \o edges[i].col \o ");">>
       \o index_lines(t, edges, i + 1)

RECURSIVE all_index_lines(_)
all_index_lines(i) ==
  IF i > Len(fks) THEN <<>>
  ELSE index_lines(fks[i].k, fks[i].v, 1) \o all_index_lines(i + 1)

\* export_indexes_sql adding its text to what the file already holds
export_indexes_sql_append ==
  /\ pc = "schema"
  /\ files' = Put(files, "data/schema/03_indexes.sql",
                  GetOr(files, "data/schema/03_indexes.sql", "")
                  \o join("\n", <<"-- Auto-generated indexes (dynamic)">> \o all_index_lines(1)))
  /\ pc' = "done"
  /\ UNCHANGED <<cfg, tables, col_types, pks, fks, metrics, series, inferred, book, first, others>>

\* export_indexes_sql(out_dir)
export_indexes_sql ==
  /\ pc = "schema"
  /\ files' = Put(files, "data/schema/03_indexes.sql",
                  join("\n", <<"-- Auto-generated indexes (dynamic)">> \o all_index_lines(1)))
  /\ pc' = "done"
  /\ UNCHANGED <<cfg, tables, col_types, pks, fks, metrics, series, inferred, book, first, others>>

\* seed_database(db_url), called by main() last, on an empty database: the
\* tables are inserted in one transaction, which an error of to_sql rolls
\* back before it leaves the method
seed_database ==
  /\ pc = "done"
  /\ LET inserts == [i \in DOMAIN tables |-> tables[i].k]
     IN  \E error \in {e \in BOOLEAN : e => inserts # <<>>} :
           /\ db' = IF error THEN db ELSE db \o inserts
           /\ pc' = IF error THEN "raised" ELSE "seeded"
  /\ UNCHANGED <<cfg, tables, col_types, pks, fks, metrics, files, series, inferred,
                 book, first, ri_findings, raw_sql, safe_sql, cache, history, executed,
                 payload>>

(***************************************************************************)
(* The workbooks load_excel reads.  A workbook is the sequence of its      *)
(* sheets [name, cols], a column of a sheet its header and its cells.      *)
(***************************************************************************)
Sheet(name, cols) == [name |-> name, cols |-> cols]

Header(name, vals) == [name |-> name, vals |-> vals]

Injective(f) == \A i, j \in DOMAIN f : i # j => f[i] # f[j]

\* Key selection: one sheet of up to MaxCols columns and up to MaxRows rows.
\* The cells of a column are numbered by first occurrence (the first value is
\* 1, a new value is one more than the largest before it), which keeps one
\* column of every pattern of repeats and nulls.
KeySheetNames == {"T", "X_"}

KeyHeaders == {"ID", "X_ID", "TID"}

FirstOccurrence(v) ==
  \A i \in DOMAIN v :
    ~isna(v[i]) =>
      v[i].lo <= 1 + Cardinality({v[j] : j \in {k \in 1..(i - 1) : ~isna(v[k])}})

KeyColumns(r) ==
  {v \in [1..r -> {Null} \cup {Num(x) : x \in 1..r}] : FirstOccurrence(v)}

KeyWorkbook(n, h, v) == <<Sheet(n, [i \in DOMAIN h |-> Header(h[i], v[i])])>>

\* Relationships: a child sheet with a key and one more column, among up to
\* two parent sheets that hold a key only, in any load order
KeyVectors == {<<Num(p[1]), Num(p[2])>> : p \in {q \in (1..MaxKey) \X (1..MaxKey) : q[1] < q[2]}}

RefHeaders == {"Ref ID", "RefID", "Ref"}

RefCells == {Null} \cup {Num(v) : v \in 1..MaxKey}

ChildKey == <<Num(1), Num(2)>>

ChildSheets ==
  {Sheet("Child", <<Header("ID", ChildKey), Header(h, v)>>) :
     h \in RefHeaders, v \in [DOMAIN ChildKey -> RefCells]}

ParentLists ==
  {<<>>} \cup {<<Sheet("P1", <<Header("ID", k)>>)>> : k \in KeyVectors}
         \cup {<<Sheet("P1", <<Header("ID", k1)>>), Sheet("P2", <<Header("ID", k2)>>)>> :
                 k1, k2 \in KeyVectors}

\* s with x put in at place p
InsertAt(s, p, x) == SubSeq(s, 1, p - 1) \o <<x>> \o SubSeq(s, p, Len(s))

LinkWorkbooks ==
  UNION {{InsertAt(ps, p, c) : p \in 1..(Len(ps) + 1)} : ps \in ParentLists, c \in ChildSheets}

\* The threshold: a child column of d distinct values, h of them parent keys
ThresholdWorkbooks ==
  UNION {{<<Sheet("Child", <<Header("ID", [i \in 1..d |-> Num(i)]),
                      Header("Ref ID", [i \in 1..d |-> Num(i)])>>),
     Sheet("Parent", <<Header("ID", [i \in 1..(h + 1) |->
                                       IF i <= h THEN Num(i) ELSE Num(MaxDistinct + 1)])>>)>> :
     h \in 0..d} : d \in 1..MaxDistinct}

\* The end-to-end scenario: orders and customers, in either load order
Orders ==
  Sheet("Orders", <<Header("OrderID", <<Num(1), Num(2), Num(3), Num(4), Num(5)>>),
                    Header("CustomerID", <<Str("A"), Str("A"), Str("B"), Str("B"), Str("C")>>)>>)

Customers ==
  Sheet("Customers", <<Header("CustomerID", <<Str("A"), Str("B"), Str("C")>>),
                       Header("Name", <<Str("Ann"), Str("Bob"), Str("Cy")>>)>>)

ScenarioWorkbooks == {<<Orders, Customers>>, <<Customers, Orders>>}

\* Messy headers: two headers of a sheet that normalise to one column name,
\* with a value in every row or with no complete row, alone or beside a
\* clean sheet loaded before or after
MessySheets ==
  {Sheet("Messy", <<Header("Ref ID", ChildKey), Header("Ref_ID", v)>>) :
     v \in {ChildKey, <<Null, Null>>}}

CleanSheet == Sheet("P1", <<Header("ID", ChildKey)>>)

MessyWorkbooks ==
  UNION {{<<m>>, <<m, CleanSheet>>, <<CleanSheet, m>>} : m \in MessySheets}

\* A sheet with no cells at all: a table of no columns and no rows
EmptySheet == Sheet("Empty", <<>>)

EmptySheetWorkbooks == {<<EmptySheet>>, <<EmptySheet, CleanSheet>>, <<CleanSheet, EmptySheet>>}

\* Two sheets whose names normalise to one table name
SameNameWorkbooks ==
  {<<Sheet("P 1", <<Header("ID", k1)>>), Sheet("P_1", <<Header("ID", k2)>>)>> :
     k1, k2 \in KeyVectors}

\* A child sheet with two more columns, each holding the keys of one parent
TwoEdgeWorkbooks ==
  {<<Sheet("Child", <<Header("ID", ChildKey), Header("A ID", k1), Header("B ID", k2)>>),
     Sheet("P1", <<Header("ID", k1)>>), Sheet("P2", <<Header("ID", k2)>>)>> :
     k1, k2 \in KeyVectors}

\* A sheet that keeps the time of creation of its rows in a column of its own
AuditNameWorkbooks ==
  {<<Sheet("Log", <<Header("ID", ChildKey), Header(h, <<Str("2024-01-05"), v>>)>>)>> :
     h \in {"Created At", "Created"}, v \in {Null, Str("2024-01-06")}}

Workbooks ==
  LinkWorkbooks \cup ThresholdWorkbooks \cup ScenarioWorkbooks
    \cup MessyWorkbooks \cup EmptySheetWorkbooks \cup SameNameWorkbooks
    \cup TwoEdgeWorkbooks \cup AuditNameWorkbooks

\* The configurations: the defaults, and a lower match threshold
Configs == {DynConfig, [DynConfig EXCEPT !.fk_match_threshold = [num |-> 1, den |-> 2]]}

(***************************************************************************)
(* The pipeline as main() drives it: load_excel, then the steps of run_all *)
(***************************************************************************)
Init ==
  /\ \E config \in Configs : PipelineInit(config)
  /\ files = <<>>
  /\ series = Series(<<>>)
  /\ inferred = None
  /\ book = <<>>
  /\ first = <<>>
  /\ OthersInit

Next ==
  \/ pc = "new" /\ \E wb \in Workbooks : load_excel(wb)
  \/ infer_column_types
  \/ infer_primary_keys
  \/ infer_foreign_keys
  \/ collect_metrics
  \/ write_report
  \/ export_schema_sql
  \/ export_indexes_sql
  \/ seed_database

Spec == Init /\ [][Next]_vars

(***************************************************************************)
(* main() run twice on the same workbook: the second process builds a new  *)
(* pipeline, the files of the first run are still on disk                  *)
(***************************************************************************)
\* What a finished run leaves behind
outputs ==
  [col_types |-> col_types, pks |-> pks, fks |-> fks,
   schema |-> Get(files, "data/schema/01_tables.sql"),
   indexes |-> Get(files, "data/schema/03_indexes.sql")]

\* main() is started again: DynamicNormalizationPipeline(DynConfig()) with
\* the same configuration
run_again ==
  /\ pc = "done"
  /\ first = <<>>
  /\ first' = <<outputs>>
  /\ pc' = "new"
  /\ tables' = <<>>
  /\ col_types' = <<>>
  /\ pks' = <<>>
  /\ fks' = <<>>
  /\ metrics' = <<>>
  /\ UNCHANGED <<cfg, files, series, inferred, book, others>>

NextTwice ==
  \/ pc = "new" /\ first = <<>> /\ \E wb \in Workbooks : load_excel(wb)
  \/ pc = "new" /\ first # <<>> /\ load_excel(book)
  \/ pc = "loaded" /\ infer_column_types
  \/ infer_primary_keys
  \/ infer_foreign_keys
  \/ collect_metrics
  \/ write_report
  \/ export_schema_sql
  \/ export_indexes_sql
  \/ run_again

SpecTwice == Init /\ [][NextTwice]_vars

(***************************************************************************)
(* Key selection on its own: load_excel, infer_column_types and            *)
(* infer_primary_keys over the key-selection workbooks                     *)
(***************************************************************************)
InitKeys ==
  /\ PipelineInit(DynConfig)
  /\ files = <<>>
  /\ series = Series(<<>>)
  /\ inferred = None
  /\ book = <<>>
  /\ first = <<>>
  /\ OthersInit

NextKeys ==
  \/ /\ pc = "new"
     /\ \E n \in KeySheetNames, c \in 0..MaxCols, r \in 0..MaxRows :
          \E h \in {g \in [1..c -> KeyHeaders] : Injective(g)}, v \in [1..c -> KeyColumns(r)] :
            load_excel(KeyWorkbook(n, h, v))
  \/ infer_column_types
  \/ infer_primary_keys

SpecKeys == InitKeys /\ [][NextKeys]_vars

(***************************************************************************)
(* infer_sql_type on a column of its own                                   *)
(***************************************************************************)
NumCells ==
  {Null, Num(1), Num(2), Frac(1, 5), Big(TwoPow31 - 1, Limb - 1), Big(TwoPow31, 0),
   Big(-TwoPow31, 0), Big(-TwoPow31 - 1, Limb - 1)}

BoolCells == {Null, Bool(TRUE), Bool(FALSE)}

TextCells ==
  {Null, Str("2024-01-05"), Str("2024-01-06 10:30"), Str("Jan 5 2024"), Str("abc"),
   Str(Rep("x", 51)), Str(Rep("x", 101)), Str(Rep("x", 256))}

TsCells == {Null, Ts("2024-01-05"), Ts("2024-01-06 10:30")}

TypeCells == {NumCells, BoolCells, TextCells, TsCells}

InitType ==
  /\ PipelineInit(DynConfig)
  /\ files = <<>>
  /\ \E n \in 0..MaxLen, cells \in TypeCells : \E v \in [1..n -> cells] : series = Series(v)
  /\ inferred = None
  /\ book = <<>>
  /\ first = <<>>
  /\ OthersInit

\* infer_sql_type(series)
infer_type ==
  /\ inferred = None
  /\ inferred' = infer_sql_type(series)
  /\ UNCHANGED <<pc, cfg, tables, col_types, pks, fks, metrics, files, series, book, first, others>>

NextType == infer_type

SpecType == InitType /\ [][NextType]_vars

(***************************************************************************)
(* src/src/normalization_pipeline.py: the pass driven by a declared        *)
(* configuration.  A finding of the integrity check is kept as a record    *)
(* of the parts its text is formatted from.                                *)
(***************************************************************************)
NullPolicy(column_policy, defaults, fallback) ==
  [column_policy |-> column_policy, defaults |-> defaults, fallback |-> fallback]

Relationship(child_table, child_col, parent_table, parent_col) ==
  [child_table |-> child_table, child_col |-> child_col,
   parent_table |-> parent_table, parent_col |-> parent_col]

PipelineConfig(sheet_to_table, null_policy, relationships, seed_order) ==
  [sheet_to_table |-> sheet_to_table, normalize_columns |-> TRUE,
   null_policy |-> null_policy, relationships |-> relationships,
   seed_order |-> seed_order]

\* NormalizationPipeline.__init__
NormalizationInit(config) ==
  /\ pc = "new"
  /\ cfg = config
  /\ tables = <<>>
  /\ metrics = <<>>
  /\ ri_findings = <<>>

\* re.sub(r"\s+", "", c)
RECURSIVE remove_spaces(_)
remove_spaces(s) ==
  IF s = "" THEN ""
  ELSE (IF CharAt(s, 1) \in {" ", "\n"} THEN "" ELSE CharAt(s, 1))
         \o remove_spaces(SubSeq(s, 2, Len(s)))

\* df.columns = [re.sub(r"\s+", "", c).lower() for c in df.columns]
normalize_columns(df) ==
  [i \in DOMAIN df |-> [df[i] EXCEPT !.name = lower_str(remove_spaces(@))]]

\* The loop over cfg.sheet_to_table.items(): a sheet of the workbook is read
\* into the table of its canonical name
RECURSIVE read_sheets(_, _, _)
read_sheets(tabs, wb, i) ==
  IF i > Len(cfg.sheet_to_table) THEN tabs
  ELSE LET sheet == cfg.sheet_to_table[i].k
           canon == cfg.sheet_to_table[i].v
           found == {j \in DOMAIN wb : wb[j].name = sheet}
       IN  IF found = {} THEN read_sheets(tabs, wb, i + 1)
           ELSE LET s == wb[CHOOSE j \in found : TRUE]
                    df == [k \in DOMAIN s.cols |-> Column(s.cols[k].name, s.cols[k].vals)]
                IN  read_sheets(Put(tabs, canon, df), wb, i + 1)

\* NormalizationPipeline.load_excel(path)
Normalization_load_excel(wb) ==
  /\ pc = "new"
  /\ LET tabs == read_sheets(tables, wb, 1)
     IN  tables' = IF cfg.normalize_columns
                   THEN [i \in DOMAIN tabs |->
                           [k |-> tabs[i].k, v |-> normalize_columns(tabs[i].v)]]
                   ELSE tabs
  /\ pc' = "loaded"
  /\ book' = wb
  /\ UNCHANGED <<cfg, col_types, pks, fks, metrics, files, series, inferred, first, others>>

\* policy.column_policy.get(col, policy.fallback)
policy_of(c) ==
  IF c \in Keys(cfg.null_policy.column_policy)
  THEN Get(cfg.null_policy.column_policy, c)
  ELSE cfg.null_policy.fallback

\* df[mask].index.tolist() for mask = df[col].isna(), col the i-th column
null_rows(df, i) == {r \in 1..nrows(df) : isna(df[i].vals[r])}

\* df.loc[mask, col] = val
fill(vals, val) == [r \in DOMAIN vals |-> IF isna(vals[r]) THEN val ELSE vals[r]]

\* The body of the loop over df.columns once df[col] is a Series, for the
\* state st = [df, drop_idx, raised] of the loop; drop_row that keeps only
\* the rows of this column (the set replaced, not updated)
null_column_replacing(st, i) ==
  LET c == st.df[i]
      pol == policy_of(c.name)
  IN  IF pol = "leave" \/ ~hasnull(c.vals) THEN st
      ELSE IF pol = "drop_row"
      THEN [st EXCEPT !.drop_idx = null_rows(st.df, i)]
      ELSE IF pol = "fill_default"
      THEN LET val == IF c.name \in Keys(cfg.null_policy.defaults)
                      THEN Get(cfg.null_policy.defaults, c.name) ELSE Str("")
           IN  [st EXCEPT !.df[i].vals = fill(c.vals, val)]
      ELSE st

\* The body of the loop over df.columns once df[col] is a Series
null_column(st, i) ==
  LET c == st.df[i]
      pol == policy_of(c.name)
  IN  IF pol = "leave" \/ ~hasnull(c.vals) THEN st
      ELSE IF pol = "drop_row"
      THEN [st EXCEPT !.drop_idx = @ \cup null_rows(st.df, i)]
      ELSE IF pol = "fill_default"
      THEN LET val == IF c.name \in Keys(cfg.null_policy.defaults)
                      THEN Get(cfg.null_policy.defaults, c.name) ELSE Str("")
           IN  [st EXCEPT !.df[i].vals = fill(c.vals, val)]
      ELSE st

\* "if not mask.any()" raises ValueError: several columns of df are named
\* as the i-th is, df[col].isna() is a frame and mask.any() a Series
nulls_raise(df, i) == policy_of(df[i].name) # "leave" /\ is_frame(df, df[i].name)

\* for col in df.columns, from the i-th column on
RECURSIVE null_columns(_, _)
null_columns(st, i) ==
  IF i > Len(st.df) THEN st
  ELSE IF nulls_raise(st.df, i) THEN [st EXCEPT !.raised = TRUE]
  ELSE null_columns(null_column(st, i), i + 1)

\* The values of a column at the rows from r on that are not in idx
RECURSIVE keep_rows(_, _, _)
keep_rows(vals, idx, r) ==
  IF r > Len(vals) THEN <<>>
  ELSE (IF r \in idx THEN <<>> ELSE <<vals[r]>>) \o keep_rows(vals, idx, r + 1)

\* df.drop(index=list(drop_idx)).reset_index(drop=True)
drop(df, idx) == [i \in DOMAIN df |-> [df[i] EXCEPT !.vals = keep_rows(@, idx, 1)]]

\* for tname, df in self.tables.items(), from the i-th table on: the fills
\* are made in place, the rows are dropped once the columns are through
RECURSIVE null_tables(_, _)
null_tables(tabs, i) ==
  IF i > Len(tabs) THEN [tables |-> tabs, raised |-> FALSE]
  ELSE LET st == null_columns([df |-> tabs[i].v, drop_idx |-> {}, raised |-> FALSE], 1)
           df == IF st.drop_idx # {} /\ ~st.raised THEN drop(st.df, st.drop_idx) ELSE st.df
           next == [tabs EXCEPT ![i].v = df]
       IN  IF st.raised THEN [tables |-> next, raised |-> TRUE]
           ELSE null_tables(next, i + 1)

\* NormalizationPipeline.handle_nulls()
handle_nulls ==
  /\ pc = "loaded"
  /\ LET r == null_tables(tables, 1)
     IN  /\ tables' = r.tables
         /\ pc' = IF r.raised THEN "raised" ELSE "nulls"
  /\ UNCHANGED <<cfg, col_types, pks, fks, metrics, files, series, inferred, book, first, others>>

\* child is None or parent is None or a column is not in its table
skipped(rel) ==
  \/ rel.child_table \notin Keys(tables)
  \/ rel.parent_table \notin Keys(tables)
  \/ rel.child_col \notin Range(columns(Get(tables, rel.child_table)))
  \/ rel.parent_col \notin Range(columns(Get(tables, rel.parent_table)))

\* The values isin() looks the child's values up in: the parent column's,
\* NaN included; the labels of the frame when parent[col] is a frame
parent_values(df, c) ==
  IF is_frame(df, c) THEN {Str(c)} ELSE Range(col(df, c).vals)

\* int((~child[col].isin(parent[col])).sum())
count_missing(child_vals, parent_vals) ==
  Cardinality({r \in DOMAIN child_vals : child_vals[r] \notin parent_vals})

finding(mark, rel, n) ==
  [mark |-> mark, child_table |-> rel.child_table, child_col |-> rel.child_col,
   parent_table |-> rel.parent_table, parent_col |-> rel.parent_col, count |-> n]

\* for rel in self.cfg.relationships, from the i-th on, found being the
\* findings so far; int() of the Series that the sum of a frame is raises
\* TypeError
RECURSIVE check_relationships(_, _)
check_relationships(found, i) ==
  IF i > Len(cfg.relationships) THEN [findings |-> found, raised |-> FALSE]
  ELSE LET rel == cfg.relationships[i]
       IN  IF skipped(rel)
           THEN check_relationships(Append(found, finding("SKIP", rel, 0)), i + 1)
           ELSE LET child == Get(tables, rel.child_table)
                    parent == Get(tables, rel.parent_table)
                IN  IF is_frame(child, rel.child_col)
                    THEN [findings |-> found, raised |-> TRUE]
                    ELSE LET n == count_missing(col(child, rel.child_col).vals,
                                                parent_values(parent, rel.parent_col))
                         IN  check_relationships(
                               Append(found, IF n > 0 THEN finding("RI-FAIL", rel, n)
                                             ELSE finding("RI-OK", rel, 0)), i + 1)

\* NormalizationPipeline.check_referential_integrity()
check_referential_integrity ==
  /\ pc \in {"loaded", "nulls"}
  /\ LET r == check_relationships(<<>>, 1)
     IN  /\ ri_findings' = r.findings
         /\ pc' = IF r.raised THEN "raised" ELSE "checked"
  /\ UNCHANGED <<cfg, tables, col_types, pks, fks, metrics, files, series, inferred,
                 book, first, db, raw_sql, safe_sql, cache, history, executed, payload>>

\* self.cfg.seed_order or list(self.tables.keys())
seed_order ==
  IF cfg.seed_order # <<>> THEN cfg.seed_order ELSE [i \in DOMAIN tables |-> tables[i].k]

\* NormalizationPipeline.seed_database(db_url) on an empty database: the
\* tables of the order that are loaded are inserted in one transaction,
\* which an error of to_sql rolls back before it leaves the method
Normalization_seed_database ==
  /\ pc = "checked"
  /\ db = <<>>
  /\ LET inserts == SelectSeq(seed_order, LAMBDA t : t \in Keys(tables))
     IN  \E error \in {e \in BOOLEAN : e => inserts # <<>>} :
           /\ db' = IF error THEN db ELSE db \o inserts
           /\ pc' = IF error THEN "raised" ELSE "seeded"
  /\ UNCHANGED <<cfg, tables, col_types, pks, fks, metrics, files, series, inferred,
                 book, first, ri_findings, raw_sql, safe_sql, cache, history, executed,
                 payload>>

\* The declared pass: orders that name their customer, and the customers
MaxRecords == 3

OrderCells == {Null, Num(1), Num(3)}

FreightCells == {Null, Num(7)}

OrderSheets ==
  UNION {{Sheet("Orders", <<Header("Customer ID", v), Header(h, w)>>) :
            v \in [1..n -> OrderCells], w \in [1..n -> FreightCells],
            h \in {"Freight", "CustomerID"}} : n \in 0..MaxRecords}

CustomerSheets ==
  {Sheet("Customers", <<Header("CustomerID", v)>>) :
     v \in {<<Num(1), Num(2)>>, <<Num(1), Null>>}}

DeclaredWorkbooks == {<<c, o>> : c \in CustomerSheets, o \in OrderSheets}

NullPolicies ==
  {NullPolicy(<<>>, <<>>, "leave"),
   NullPolicy(Put(<<>>, "customerid", "drop_row"), <<>>, "leave"),
   NullPolicy(Put(Put(<<>>, "customerid", "drop_row"), "freight", "drop_row"), <<>>, "leave"),
   NullPolicy(Put(<<>>, "freight", "fill_default"), Put(<<>>, "freight", Num(0)), "drop_row")}

Declared == Relationship("orders", "customerid", "customers", "customerid")

Declarations ==
  {[relationships |-> <<Declared>>, seed_order |-> <<>>],
   [relationships |-> <<Relationship("orders", "customerid", "shippers", "shipperid"),
                        Declared,
                        Relationship("orders", "shipperid", "customers", "customerid")>>,
    seed_order |-> <<"customers", "shippers", "orders">>]}

PipelineConfigs ==
  {PipelineConfig(Put(Put(<<>>, "Orders", "orders"), "Customers", "customers"),
                  p, d.relationships, d.seed_order) :
     p \in NullPolicies, d \in Declarations}

InitNormalization ==
  /\ \E config \in PipelineConfigs : NormalizationInit(config)
  /\ col_types = <<>>
  /\ pks = <<>>
  /\ fks = <<>>
  /\ files = <<>>
  /\ series = Series(<<>>)
  /\ inferred = None
  /\ book = <<>>
  /\ first = <<>>
  /\ db = <<>>
  /\ raw_sql = NoQuery
  /\ safe_sql = NotCalled
  /\ cache = <<>>
  /\ history = <<>>
  /\ executed = <<>>
  /\ payload = <<>>

NextNormalization ==
  \/ \E wb \in DeclaredWorkbooks : Normalization_load_excel(wb)
  \/ handle_nulls
  \/ check_referential_integrity
  \/ Normalization_seed_database

SpecNormalization == InitNormalization /\ [][NextNormalization]_vars

(***************************************************************************)
(* src/src/query_validator.py.  A query text is the sequence of its        *)
(* lexemes: words, numbers, ";", "(", ")", the comment marks "--", "/*"    *)
(* and "*/", the line break "\n", and the code fence with and without     *)
(* its sql tag: three backquotes, written "'''" and "'''sql" here.         *)
(* Lexemes are separated by blanks, so the regular expressions of the      *)
(* module, which match whole words, match whole lexemes.                   *)
(***************************************************************************)
\* The words of FORBIDDEN that stand alone
FORBIDDEN_WORDS ==
  {"insert", "update", "delete", "merge", "upsert", "replace", "truncate",
   "create", "alter", "drop", "rename", "grant", "revoke", "comment", "analyze",
   "vacuum", "copy", "call", "do", "execute"}

\* FORBIDDEN.search(s): a forbidden word, or one of SET ROLE, SET SESSION
\* AUTHORIZATION, SECURITY DEFINER, SECURITY INVOKER, in any case
FORBIDDEN(s) ==
  \E i \in DOMAIN s :
    LET w(k) == IF i + k \in DOMAIN s THEN lower_str(s[i + k]) ELSE ""
    IN  \/ w(0) \in FORBIDDEN_WORDS
        \/ w(0) = "set" /\ w(1) = "role"
        \/ w(0) = "set" /\ w(1) = "session" /\ w(2) = "authorization"
        \/ w(0) = "security" /\ w(1) \in {"definer", "invoker"}

\* MULTI_STMT_SEMI.search(s): a semicolon, then something that is neither a
\* semicolon nor white space
MULTI_STMT_SEMI(s) ==
  \E i \in DOMAIN s : s[i] = ";" /\ \E j \in DOMAIN s : j > i /\ s[j] \notin {";", "\n"}

\* str.strip() of a text: no line break at either end
strip_text(s) ==
  LET keep == {i \in DOMAIN s : s[i] # "\n"}
  IN  IF keep = {} THEN <<>>
      ELSE LET lo == CHOOSE i \in keep : \A j \in keep : i <= j
               hi == CHOOSE i \in keep : \A j \in keep : j <= i
           IN  SubSeq(s, lo, hi)

\* The places of the fences of s, the same after the sql tags are replaced
fences(s) == {i \in DOMAIN s : s[i] \in {"'''", "'''sql"}}

\* _strip_code_fences(sql)
strip_code_fences(sql) ==
  LET s == strip_text(sql)
  IN  IF s # <<>> /\ s[1] \in {"'''", "'''sql"}
      THEN IF Cardinality(fences(s)) >= 2
           THEN LET close == CHOOSE i \in fences(s) \ {1} : \A j \in fences(s) \ {1} : i <= j
                IN  strip_text(SubSeq(s, 2, close - 1))
           ELSE strip_text(SelectSeq(s, LAMBDA w : w \notin {"'''", "'''sql"}))
      ELSE s

\* re.sub(r"--[^\n]*", "", sql)
RECURSIVE strip_line_comments(_)
strip_line_comments(s) ==
  IF s = <<>> THEN <<>>
  ELSE IF Head(s) = "--"
  THEN LET breaks == {i \in DOMAIN s : s[i] = "\n"}
       IN  IF breaks = {} THEN <<>>
           ELSE LET b == CHOOSE i \in breaks : \A j \in breaks : i <= j
                IN  <<"\n">> \o strip_line_comments(SubSeq(s, b + 1, Len(s)))
  ELSE <<Head(s)>> \o strip_line_comments(Tail(s))

\* re.sub(r"/\*.*?\*/", "", s, flags=re.DOTALL)
RECURSIVE strip_block_comments(_)
strip_block_comments(s) ==
  IF s = <<>> THEN <<>>
  ELSE LET ends == {i \in DOMAIN s : i > 1 /\ s[i] = "*/"}
       IN  IF Head(s) = "/*" /\ ends # {}
           THEN LET e == CHOOSE i \in ends : \A j \in ends : i <= j
                IN  strip_block_comments(SubSeq(s, e + 1, Len(s)))
           ELSE <<Head(s)>> \o strip_block_comments(Tail(s))

\* _strip_sql_comments(sql)
strip_sql_comments(sql) == strip_block_comments(strip_line_comments(sql))

\* _collapse_ws(sql): the lexemes, one blank between them
collapse_ws(sql) == SelectSeq(sql, LAMBDA w : w # "\n")

\* clean_llm_sql(raw)
clean_llm_sql(raw) ==
  LET s == collapse_ws(strip_sql_comments(strip_code_fences(raw)))
  IN  IF s # <<>> /\ lower_str(s[1]) = "sql:" THEN Tail(s) ELSE s

\* s.rstrip(" ;")
RECURSIVE rstrip_semi(_)
rstrip_semi(s) ==
  IF s # <<>> /\ s[Len(s)] \in {";", "\n"} THEN rstrip_semi(SubSeq(s, 1, Len(s) - 1)) ELSE s

\* int(digits)
RECURSIVE int(_)
int(digits) ==
  IF digits = "" THEN 0
  ELSE 10 * int(SubSeq(digits, 1, Len(digits) - 1))
       + (CHOOSE d \in 0..9 : CharAt(Digits, d + 1) = CharAt(digits, Len(digits)))

\* The places where r"\bLIMIT\s+(\d+)\b" matches
limits(sql) ==
  {i \in DOMAIN sql :
     /\ lower_str(sql[i]) = "limit"
     /\ i + 1 \in DOMAIN sql /\ sql[i + 1] # "" /\ AllDigits(sql[i + 1])}

\* re.sub(r"\bLIMIT\s+\d+\b", f"LIMIT {max_limit}", sql)
tighten(sql, max_limit) ==
  [i \in DOMAIN sql |->
     IF i \in limits(sql) THEN "LIMIT"
     ELSE IF i - 1 \in limits(sql) THEN str(max_limit)
     ELSE sql[i]]

\* _enforce_limit(sql, max_limit): re.search gives the first match
enforce_limit(sql, max_limit) ==
  IF limits(sql) = {} THEN sql \o <<"LIMIT", str(max_limit)>>
  ELSE LET m == CHOOSE i \in limits(sql) : \A j \in limits(sql) : i <= j
           current == int(sql[m + 1])
       IN  IF current > max_limit THEN tighten(sql, max_limit) ELSE sql

ValueError == [state |-> "raised", sql |-> <<>>]

\* sanitize_query(raw_sql, max_limit): ValueError, or the text returned
sanitize_query(sql, max_limit) ==
  IF strip_text(sql) = <<>> THEN ValueError
  ELSE LET cleaned == clean_llm_sql(sql)
       IN  IF MULTI_STMT_SEMI(strip_text(cleaned)) THEN ValueError
           ELSE LET s == rstrip_semi(strip_text(cleaned))
                IN  IF ~(s # <<>> /\ lower_str(s[1]) \in {"select", "with"}) THEN ValueError
                    ELSE IF FORBIDDEN(s) THEN ValueError
                    ELSE [state |-> "returned", sql |-> enforce_limit(s, max_limit)]

\* A call of sanitize_query
sanitize ==
  /\ safe_sql = NotCalled
  /\ safe_sql' = sanitize_query(raw_sql.sql, raw_sql.max_limit)
  /\ UNCHANGED <<pc, cfg, tables, col_types, pks, fks, metrics, files, series, inferred,
                 book, first, db, ri_findings, raw_sql, cache, history, executed, payload>>

\* The texts handed to sanitize_query: every text of up to MaxTokens
\* lexemes, and statements with a LIMIT in a subquery and one on the outer
\* query, bare or in a code fence, with or without something after them
MaxTokens == 3

Lexemes ==
  {"SELECT", "with", "x", ";", "DROP", "LIMIT", "5", "2000", "--", "\n", "'''", "/*", "*/",
   "SQL:"}

Verbs == {"SELECT", "select", "WITH", "DROP", "INSERT", "Update"}

LimitClauses == {<<>>, <<"LIMIT", "5">>, <<"limit", "2000">>}

Endings == {<<>>, <<";">>, <<";", "DROP", "x">>, <<"--", ";", "DROP", "x">>}

Statement(verb, inner, outer) == <<verb, "(", "x">> \o inner \o <<")">> \o outer

Fenced(s) == <<"'''sql", "\n">> \o s \o <<"\n", "'''">>

Queries ==
       UNION {[1..n -> Lexemes] : n \in 0..MaxTokens}
  \cup UNION {{Statement(v, i, o) \o e, Fenced(Statement(v, i, o)) \o e} :
                v \in Verbs, i \in LimitClauses, o \in LimitClauses, e \in Endings}

MaxLimits == {3, 1000}

InitSanitize ==
  /\ PipelineInit(DynConfig)
  /\ files = <<>>
  /\ series = Series(<<>>)
  /\ inferred = None
  /\ book = <<>>
  /\ first = <<>>
  /\ db = <<>>
  /\ ri_findings = <<>>
  /\ \E q \in Queries, max_limit \in MaxLimits : raw_sql = [sql |-> q, max_limit |-> max_limit]
  /\ safe_sql = NotCalled
  /\ cache = <<>>
  /\ history = <<>>
  /\ executed = <<>>
  /\ payload = <<>>

NextSanitize == sanitize

SpecSanitize == InitSanitize /\ [][NextSanitize]_vars

(***************************************************************************)
(* src/src/text2sql_engine.py: Text2SQLEngine.run.  What the model, the    *)
(* database and the history file do is the environment's choice: the       *)
(* generation returns a text or raises, and the read of the database, the  *)
(* two writes of the history and the retrieval of the plan succeed or      *)
(* raise.                                                                  *)
(***************************************************************************)
\* QueryCache(maxsize=100)
maxsize == 100

\* The default of run's parameter limit
limit == 1000

\* lru_cache on a hit: the key becomes the most recently used
cache_hit(c, key) == SelectSeq(c, LAMBDA k : k # key) \o <<key>>

\* lru_cache on a miss: the least recently used key goes when the cache is full
cache_miss(c, key) == Append(IF Len(c) >= maxsize THEN Tail(c) ELSE c, key)

\* QueryHistory.log(question, sql, success): the row inserted
log(h, question, sql, success) ==
  Append(h, [question |-> question, sql |-> sql, success |-> success])

\* The try block of run: whether it raised, the raw_sql it had by then, and
\* what it had done to the cache, the database and the history.  Every call
\* makes an engine of its own with create_engine, and the key of the
\* lru_cache is the pair (sql, engine).  s is what sanitize_query made of
\* the generated text.
try(question, gen, s, read_error, log_error, plan_error) ==
  LET raised(raw, c, e, h) ==
        [raised |-> TRUE, raw_sql |-> raw, sql |-> <<>>, cache |-> c, executed |-> e,
         history |-> h]
  IN  IF gen.raises THEN raised(<<>>, cache, executed, history)
      ELSE IF s.state = "raised" THEN raised(gen.text, cache, executed, history)
      ELSE LET key == [sql |-> s.sql, engine |-> Len(payload) + 1]
               hit == key \in Range(cache)
               c == IF hit THEN cache_hit(cache, key) ELSE cache_miss(cache, key)
               e == IF hit THEN executed ELSE Append(executed, s.sql)
               h == log(history, question, s.sql, TRUE)
           IN  IF ~hit /\ read_error THEN raised(gen.text, cache, executed, history)
               ELSE IF log_error THEN raised(gen.text, c, e, history)
               ELSE IF plan_error THEN raised(gen.text, c, e, h)
               ELSE [raised |-> FALSE, raw_sql |-> gen.text, sql |-> s.sql,
                     cache |-> c, executed |-> e, history |-> h]

\* The calls of run: up to MaxCalls of them, the questions asked, and what
\* generate_sql does with a question: it raises, or returns the stripped
\* text of the response
MaxCalls == 2

Questions == {"How many customers are there?", "Remove the orders"}

Generated ==
  {<<>>, <<"SELECT", "x">>, Fenced(<<"SELECT", "x">>), <<"select", "x", "LIMIT", "5">>,
   <<"DROP", "x">>}

Generations ==
  {[raises |-> TRUE, text |-> <<>>]} \cup {[raises |-> FALSE, text |-> g] : g \in Generated}

\* How a call of run ended: the keys of the payload it returned and the
\* value of "ok", or the exception that left it
ended(question, t, keys, ok, raises) ==
  [question |-> question, raw_sql |-> t.raw_sql, sql |-> t.sql, keys |-> keys, ok |-> ok,
   raises |-> raises]

\* Text2SQLEngine.run(question)
run(question) ==
  /\ Len(payload) < MaxCalls
  /\ \E gen \in Generations :
     \E s \in {IF gen.raises THEN ValueError ELSE sanitize_query(gen.text, limit)} :
     \E read_error, log_error, plan_error, handler_error \in BOOLEAN :
       \E t \in {try(question, gen, s, read_error, log_error, plan_error)} :
           /\ cache' = t.cache
           /\ executed' = t.executed
           /\ IF ~t.raised
              THEN /\ history' = t.history
                   /\ payload' = Append(payload,
                                        ended(question, t,
                                              {"ok", "sql", "rows", "results", "plan"},
                                              TRUE, FALSE))
              ELSE IF handler_error
              THEN /\ history' = t.history
                   /\ payload' = Append(payload, ended(question, t, {}, FALSE, TRUE))
              ELSE /\ history' = log(t.history, question, t.raw_sql, FALSE)
                   /\ payload' = Append(payload,
                                        ended(question, t, {"ok", "error"}, FALSE, FALSE))
  /\ UNCHANGED <<pc, cfg, tables, col_types, pks, fks, metrics, files, series, inferred,
                 book, first, db, ri_findings, raw_sql, safe_sql>>

InitEngine ==
  /\ PipelineInit(DynConfig)
  /\ files = <<>>
  /\ series = Series(<<>>)
  /\ inferred = None
  /\ book = <<>>
  /\ first = <<>>
  /\ OthersInit

NextEngine == \E question \in Questions : run(question)

SpecEngine == InitEngine /\ [][NextEngine]_vars

(***************************************************************************)
(* The claims.                                                             *)
(***************************************************************************)
\* infer_primary_keys has returned
Keyed == pc \in {"keyed", "linked", "measured", "reported", "schema", "done", "seeded"}

\* infer_foreign_keys has returned
Linked == pc \in {"linked", "measured", "reported", "schema", "done", "seeded"}

\* The values of a column with no null and no value twice
NoNullNoDuplicate(vals) ==
  /\ \A i \in DOMAIN vals : vals[i] # Null
  /\ \A i, j \in DOMAIN vals : i < j => vals[i] # vals[j]

\* The key fitness of a column as the specification states it
KeyFitness(c, t) ==
    (IF NoNullNoDuplicate(c.vals) THEN 3 ELSE 0)
  + (IF c.name = "id" THEN 3 ELSE 0)
  + (IF Len(c.name) >= 3 /\ SubSeq(c.name, Len(c.name) - 2, Len(c.name)) = "_id" THEN 2 ELSE 0)
  + (IF c.name = t \o "id" THEN 2 ELSE 0)

\* C1: after infer_primary_keys, the column recorded in pks[T] has no null
\* and no duplicate value, for every loaded table T.
C1_PrimaryKeyIsValid ==
  Keyed => \A i \in DOMAIN tables :
             NoNullNoDuplicate(col(tables[i].v, Get(pks, tables[i].k)).vals)

\* The surrogate names: id, id2, id3, ...
SurrogateNames == {"id"} \cup {"id" \o str(i) : i \in 2..(MaxCols + 2)}

\* C2: a table of N rows whose best pk_score is 0 gets a new first column
\* named id (id2, id3, ... when taken) holding 1..N in row order, typed
\* BIGSERIAL and selected as the primary key.
C2_SurrogateOnZeroScore ==
  [][(pc = "typed" /\ pc' = "keyed") =>
       \A i \in DOMAIN tables :
         LET t == tables[i].k
             df == tables[i].v
             after == tables'[i].v
         IN  (df # <<>> /\ \A j \in DOMAIN df : KeyFitness(df[j], t) = 0) =>
               /\ Len(after) = Len(df) + 1
               /\ after[1].name \in SurrogateNames \ Range(columns(df))
               /\ after[1].vals = [r \in 1..nrows(df) |-> Num(r)]
               /\ SubSeq(after, 2, Len(after)) = df
               /\ Get(Get(col_types', t), after[1].name) = "BIGSERIAL"
               /\ Get(pks', t) = after[1].name]_vars

\* s holds sub as a substring
Contains(s, sub) ==
  \E i \in 1..(Len(s) - Len(sub) + 1) : SubSeq(s, i, i + Len(sub) - 1) = sub

IsScenario == Keys(tables) = {"orders", "customers"}

\* C3: for orders(orderid, customerid) and customers(customerid, name) the
\* run selects customers.customerid and orders.orderid as primary keys,
\* records the edge orders.customerid -> customers.customerid, and writes the
\* FOREIGN KEY clause and the index idx_orders_customerid.
C3_ScenarioLinksOrdersToCustomers ==
  (pc = "done" /\ IsScenario) =>
    /\ Get(pks, "customers") = "customerid"
    /\ Get(pks, "orders") = "orderid"
    /\ [col |-> "customerid", pt |-> "customers", parent_pk |-> "customerid"]
         \in Range(Get(fks, "orders"))
    /\ Contains(Get(files, "data/schema/01_tables.sql"),
                "FOREIGN KEY (customerid) REFERENCES customers(customerid)")
    /\ Contains(Get(files, "data/schema/03_indexes.sql"), "idx_orders_customerid")

\* The key values of table number p, and whether the values of column c
\* overlap them at or above the configured fraction
KeyValues(p) ==
  LET k == col(tables[p].v, Get(pks, tables[p].k)).vals
  IN  {k[r] : r \in {q \in DOMAIN k : k[q] # Null}}

Distinct(c) == {c.vals[r] : r \in {q \in DOMAIN c.vals : c.vals[q] # Null}}

Overlaps(c, p) ==
  Cardinality(Distinct(c) \cap KeyValues(p)) * cfg.fk_match_threshold.den
    >= cfg.fk_match_threshold.num * Cardinality(Distinct(c))

\* The edges recorded for column c of table number i
EdgesOf(i, c) == SelectSeq(Get(fks, tables[i].k), LAMBDA e : e.col = c.name)

\* The columns of table number i other than its primary key
NonKeyColumns(i) == {c \in Range(tables[i].v) : c.name # Get(pks, tables[i].k)}

\* The claim's reading of id-like: the name ends in "id"
EndsInId(name) == Len(name) >= 2 /\ SubSeq(name, Len(name) - 1, Len(name)) = "id"

\* C4: a non-key column is tested against the other tables' keys exactly
\* when its name ends in "id": no other column becomes the child of an edge,
\* and every such column with values that overlap another table's key at or
\* above the threshold does.
C4_IdLikeColumnsAreTested ==
  Linked => \A i \in DOMAIN tables : \A c \in NonKeyColumns(i) :
              EdgesOf(i, c) # <<>>
                <=> /\ EndsInId(c.name)
                    /\ Distinct(c) # {}
                    /\ \E p \in DOMAIN tables : p # i /\ Overlaps(c, p)

\* The non-key columns of table number i that infer_foreign_keys tests
Tested(i) == {c \in NonKeyColumns(i) : ID_HINTS(c.name) /\ Distinct(c) # {}}

\* C5: the threshold is inclusive: a tested child column gets an edge iff
\* some other table's key holds at least the configured fraction of its
\* distinct values, and the parent of every edge does.
C5_ThresholdIsInclusive ==
  Linked => \A i \in DOMAIN tables : \A c \in Tested(i) :
              /\ EdgesOf(i, c) # <<>> <=> \E p \in DOMAIN tables : p # i /\ Overlaps(c, p)
              /\ \A n \in DOMAIN EdgesOf(i, c) :
                   \E p \in DOMAIN tables :
                     tables[p].k = EdgesOf(i, c)[n].pt /\ p # i /\ Overlaps(c, p)

\* C5: 8 of 10 distinct child values are parent keys, the threshold is the
\* default 0.8, and the edge is recorded.
C5_EightOfTenIsLinked ==
  /\ pc = "linked"
  /\ cfg = DynConfig
  /\ \E i, p \in DOMAIN tables : \E c \in Tested(i) :
       /\ p # i
       /\ Cardinality(Distinct(c)) = 10
       /\ Cardinality(Distinct(c) \cap KeyValues(p)) = 8
       /\ EdgesOf(i, c) = <<[col |-> c.name, pt |-> tables[p].k, parent_pk |-> Get(pks, tables[p].k)]>>

\* C6: a child column has at most one edge, and the edge points to the first
\* table in load order, other than the child's, that reaches the threshold.
C6_FirstParentWins ==
  Linked => \A i \in DOMAIN tables : \A c \in Range(tables[i].v) :
              /\ Len(EdgesOf(i, c)) <= 1
              /\ \A n \in DOMAIN EdgesOf(i, c) :
                   \E p \in DOMAIN tables :
                     /\ tables[p].k = EdgesOf(i, c)[n].pt
                     /\ p # i /\ Overlaps(c, p)
                     /\ \A q \in 1..(p - 1) : q = i \/ ~Overlaps(c, q)

\* C6: two parents reach the threshold, the later one with the larger
\* overlap, and the edge points to the earlier one.
C6_LaterParentOverlapsMore ==
  /\ pc = "linked"
  /\ \E i, p, q \in DOMAIN tables : \E c \in Tested(i) :
       /\ p < q /\ p # i /\ q # i
       /\ Overlaps(c, p) /\ Overlaps(c, q)
       /\ Cardinality(Distinct(c) \cap KeyValues(p)) < Cardinality(Distinct(c) \cap KeyValues(q))
       /\ Len(EdgesOf(i, c)) = 1 /\ EdgesOf(i, c)[1].pt = tables[p].k

\* C7: no edge has the same table as child and parent.
C7_NoSelfReference ==
  Linked => \A i \in DOMAIN tables :
              \A n \in DOMAIN Get(fks, tables[i].k) : Get(fks, tables[i].k)[n].pt # tables[i].k

\* C7: a tested column whose values all are keys of its own table, with no
\* edge to that table.
C7_ColumnOverlapsOwnKey ==
  /\ pc = "linked"
  /\ \E i \in DOMAIN tables : \E c \in Tested(i) :
       /\ Distinct(c) \subseteq KeyValues(i)
       /\ \A n \in DOMAIN Get(fks, tables[i].k) : Get(fks, tables[i].k)[n].pt # tables[i].k

\* C8: every table has exactly one primary key, the first in column order of
\* the columns with the highest key fitness.
C8_FirstBestColumnIsKey ==
  Keyed =>
    /\ [i \in DOMAIN pks |-> pks[i].k] = [i \in DOMAIN tables |-> tables[i].k]
    /\ \A i \in DOMAIN tables :
         LET t == tables[i].k
             df == tables[i].v
         IN  \E j \in DOMAIN df :
               /\ pks[i].v = df[j].name
               /\ \A m \in DOMAIN df : KeyFitness(df[m], t) <= KeyFitness(df[j], t)
               /\ \A m \in 1..(j - 1) : KeyFitness(df[m], t) < KeyFitness(df[j], t)

\* C8: two columns share the highest fitness and the first of them is the key.
C8_TieGoesToFirst ==
  /\ pc = "keyed"
  /\ \E i \in DOMAIN tables :
       LET t == tables[i].k
           df == tables[i].v
       IN  /\ Len(df) >= 2
           /\ KeyFitness(df[1], t) = KeyFitness(df[2], t)
           /\ KeyFitness(df[1], t) > 0
           /\ \A m \in DOMAIN df : KeyFitness(df[m], t) <= KeyFitness(df[1], t)
           /\ pks[i].v = df[1].name

\* The non-null cells of the column handed to infer_sql_type
NonNull == {series.vals[i] : i \in {j \in DOMAIN series.vals : series.vals[j] # Null}}

\* C9: DATE or TIMESTAMPTZ is returned only when every non-null value
\* parses as a timestamp, and DATE only when every one is at midnight.
C9_TimestampTypesNeedAllValues ==
  /\ inferred \in {"DATE", "TIMESTAMPTZ"} => \A c \in NonNull : to_datetime(c) # NaT
  /\ inferred = "DATE" => \A c \in NonNull : to_datetime(c) = "00:00"

StringTypes == {"VARCHAR(50)", "VARCHAR(100)", "VARCHAR(255)", "TEXT"}

\* C10: a column whose non-null values all are strings containing letters
\* resolves to a VARCHAR bucket or TEXT.
C10_LetterStringsStayStrings ==
  (inferred # None /\ \A c \in NonNull : c.kind = "str" /\ HasLetter(c.txt))
    => inferred \in StringTypes

\* An integral number cell
Integral(c) == c.kind = "num" /\ c.frac = 0

\* Whether a number cell lies in -2^31 .. 2^31 - 1
\* (the cell is hi * 2^16 + lo with 0 <= lo < 2^16)
FitsInt32(c) == -(2^15) <= c.hi /\ c.hi <= 2^15 - 1

\* C11: a column whose non-null values all are integral resolves to INTEGER
\* iff every value lies in -2^31 .. 2^31 - 1, and to BIGINT otherwise; the
\* values -2^31 and 2^31 - 1 give INTEGER and 2^31 gives BIGINT.
C11_IntegerIffInt32Range ==
  (inferred # None /\ NonNull # {} /\ \A c \in NonNull : Integral(c)) =>
    /\ inferred = IF \A c \in NonNull : FitsInt32(c) THEN "INTEGER" ELSE "BIGINT"
    /\ NonNull \subseteq {Big(-(2^15), 0), Big(2^15 - 1, Limb - 1)} => inferred = "INTEGER"
    /\ Big(2^15, 0) \in NonNull => inferred = "BIGINT"

\* C11: the column holds both -2^31 and 2^31 - 1 and resolves to INTEGER.
C11_BoundariesAreInteger ==
  /\ NonNull = {Big(-(2^15), 0), Big(2^15 - 1, Limb - 1)}
  /\ inferred = "INTEGER"

\* Every sheet of the workbook has at least one column
EverySheetHasColumns == \A i \in DOMAIN book : book[i].cols # <<>>

\* C12: inference is total: on tables with at least one column neither
\* infer_column_types nor infer_primary_keys raises, and after them col_types
\* holds a type for every column of the table, a synthesized key included,
\* and pks names a column of the table.
C12_InferenceIsTotal ==
  /\ EverySheetHasColumns => pc # "raised"
  /\ Keyed => \A i \in DOMAIN tables :
                LET t == tables[i].k
                    df == tables[i].v
                IN  df # <<>> =>
                      /\ t \in Keys(col_types) /\ t \in Keys(pks)
                      /\ Range(columns(df)) \subseteq Keys(Get(col_types, t))
                      /\ Get(pks, t) \in Range(columns(df))

\* C13: structurally invalid input is fatal: infer_primary_keys does not
\* return with a key resolved when a table has no columns, and
\* infer_foreign_keys does not return when the table set is empty.
C13_StructuralErrorsAreFatal ==
  /\ Keyed => EverySheetHasColumns
  /\ Linked => tables # <<>>

\* C14: no partial state: when a phase of run_all raises, the tables,
\* col_types, pks, fks and metrics are as they were when run_all started
\* (the tables as loaded, the rest empty); otherwise all of them are
\* complete for every table.
C14_NoPartialState ==
  /\ pc = "raised" =>
       /\ tables = load_sheets(<<>>, book, 1)
       /\ col_types = <<>> /\ pks = <<>> /\ fks = <<>> /\ metrics = <<>>
  /\ pc = "done" =>
       /\ Keys(col_types) = Keys(tables) /\ Keys(pks) = Keys(tables)
       /\ Keys(fks) = Keys(tables) /\ Keys(metrics) = Keys(tables)
       /\ \A i \in DOMAIN tables :
            Range(columns(tables[i].v)) \subseteq Keys(Get(col_types, tables[i].k))

\* Every table has its primary key resolved to one of its columns
KeysResolved ==
  /\ [i \in DOMAIN pks |-> pks[i].k] = [i \in DOMAIN tables |-> tables[i].k]
  /\ \A i \in DOMAIN tables : pks[i].v \in Range(columns(tables[i].v))

\* infer_foreign_keys has recorded the edges of every table
EdgesRecorded == [i \in DOMAIN fks |-> fks[i].k] = [i \in DOMAIN tables |-> tables[i].k]

ReportFile == "out/dynamic_report.json"

SchemaFile == "data/schema/01_tables.sql"

IndexFile == "data/schema/03_indexes.sql"

\* C15: the phases run in the fixed order: edges are recorded only when
\* every table's primary key (a surrogate included) is resolved and the
\* tables no longer change; metrics and files are produced only when the
\* edges of every table are recorded, the report after the metrics, the
\* schema after the report and the indexes after the schema.
C15_PhasesInOrder ==
  [][/\ fks' # fks => KeysResolved /\ tables' = tables /\ pks' = pks
     /\ metrics' # metrics => KeysResolved /\ EdgesRecorded /\ fks' = fks
     /\ files' # files => /\ EdgesRecorded /\ fks' = fks
                          /\ Keys(metrics) = Keys(tables) /\ metrics' = metrics
     /\ SchemaFile \in Keys(files') \ Keys(files) => ReportFile \in Keys(files)
     /\ IndexFile \in Keys(files') \ Keys(files) => SchemaFile \in Keys(files)]_vars

\* C15: a run that resolved the keys, found an edge and wrote all
\* three files.
C15_RunWithEdgeAndFiles ==
  /\ pc = "done"
  /\ {ReportFile, SchemaFile, IndexFile} \subseteq Keys(files)
  /\ \E i \in DOMAIN fks : fks[i].v # <<>>

\* The first character of s at or after place i that is not a blank or a
\* line break; "" when there is none
RECURSIVE NextNonBlank(_, _)
NextNonBlank(s, i) ==
  IF i > Len(s) THEN ""
  ELSE IF CharAt(s, i) \in {" ", "\n"} THEN NextNonBlank(s, i + 1)
  ELSE CharAt(s, i)

\* No element of a parenthesised list of s is empty: what follows an opening
\* parenthesis is not a comma, and what follows a comma is neither a comma
\* nor a closing parenthesis
ListsWellFormed(s) ==
  \A i \in 1..Len(s) :
    /\ CharAt(s, i) = "(" => NextNonBlank(s, i + 1) # ","
    /\ CharAt(s, i) = "," => NextNonBlank(s, i + 1) \notin {",", ")", ""}

\* C16: every CREATE TABLE statement written is valid SQL: the elements of
\* its list are non-empty and separated by exactly one comma, with no
\* leading, trailing or doubled comma.
C16_ElementListsAreWellFormed ==
  pc = "schema" => ListsWellFormed(Get(files, SchemaFile))

\* s begins with pre
StartsWith(s, pre) == Len(s) >= Len(pre) /\ SubSeq(s, 1, Len(pre)) = pre

\* The column definitions of a table, one line each, in the order of its columns
RECURSIVE ColumnLines(_, _, _)
ColumnLines(t, df, i) ==
  IF i > Len(df) THEN ""
  ELSE "  " \o df[i].name \o " " \o Get(Get(col_types, t), df[i].name)
       \o (IF \E r \in DOMAIN df[i].vals : df[i].vals[r] = Null THEN "" ELSE " NOT NULL")
       \o ",\n" \o ColumnLines(t, df, i + 1)

AuditLines ==
  IF cfg.add_audit_cols
  THEN "  created_at TIMESTAMPTZ NOT NULL DEFAULT now(),\n"
       \o "  updated_at TIMESTAMPTZ NOT NULL DEFAULT now(),\n"
  ELSE ""

\* What the statement of table number i begins with, up to its PRIMARY KEY clause
StatementHead(i) ==
  "CREATE TABLE IF NOT EXISTS " \o tables[i].k \o " (\n"
  \o ColumnLines(tables[i].k, tables[i].v, 1) \o AuditLines
  \o "  PRIMARY KEY (" \o Get(pks, tables[i].k) \o ")"

\* The statements of the schema file, in load order
Statements == [i \in DOMAIN tables |-> emit_table_sql(tables[i].k)]

\* What follows the head in the statement of table number i
StatementRest(i) == SubSeq(Statements[i], Len(StatementHead(i)) + 1, Len(Statements[i]))

\* C17: the schema file holds one CREATE TABLE IF NOT EXISTS statement per
\* table, in load order; each lists the table's columns in their order, NOT
\* NULL iff the column has no null, then one PRIMARY KEY clause naming
\* pks[table].
C17_OneStatementPerTable ==
  pc = "schema" =>
    /\ Get(files, SchemaFile)
         = "-- Auto-generated schema (dynamic)\n" \o join("\n\n", Statements) \o "\n"
    /\ \A i \in DOMAIN tables :
         /\ StartsWith(Statements[i], StatementHead(i))
         /\ ~Contains(StatementRest(i), "PRIMARY KEY")
         /\ ~Contains(StatementRest(i), "CREATE TABLE")

\* C17: a schema of two tables, one with a column that has a null and a
\* column that has none.
C17_SchemaWithNullableColumn ==
  /\ pc = "schema"
  /\ Len(tables) >= 2
  /\ \E i \in DOMAIN tables : \E c, d \in Range(tables[i].v) :
       hasnull(c.vals) /\ ~hasnull(d.vals)

\* How often sub occurs in s
Occurrences(s, sub) ==
  Cardinality({p \in 1..(Len(s) - Len(sub) + 1) : SubSeq(s, p, p + Len(sub) - 1) = sub})

\* The FOREIGN KEY clause of an edge
ForeignKeyClause(e) ==
  "FOREIGN KEY (" \o e.col \o ") REFERENCES " \o e.pt \o "(" \o e.parent_pk
  \o ") ON UPDATE CASCADE ON DELETE RESTRICT"

\* The index statements of the edges i .. of table t
RECURSIVE IndexStatements(_, _, _)
IndexStatements(t, edges, i) ==
  IF i > Len(edges) THEN ""
  ELSE "\nCREATE INDEX IF NOT EXISTS idx_" \o t \o "_" \o edges[i].col
       \o " ON " \o t \o "(" \o edges[i].col \o ");" \o IndexStatements(t, edges, i + 1)

\* The index statements of the tables i .., in load order
RECURSIVE AllIndexStatements(_)
AllIndexStatements(i) ==
  IF i > Len(tables) THEN ""
  ELSE IndexStatements(tables[i].k, Get(fks, tables[i].k), 1) \o AllIndexStatements(i + 1)

\* C18: the artifacts correspond one to one to the edges: the statement of
\* a table holds, after its columns and its PRIMARY KEY clause, one FOREIGN
\* KEY clause for each of its edges and no other, and the index file holds
\* one CREATE INDEX IF NOT EXISTS idx_t_c ON t(c) for each edge and no other.
C18_ArtifactsMatchEdges ==
  pc = "done" =>
    /\ \A i \in DOMAIN tables :
         LET edges == Get(fks, tables[i].k)
         IN  /\ Occurrences(Statements[i], "FOREIGN KEY") = Len(edges)
             /\ Occurrences(StatementHead(i), "FOREIGN KEY") = 0
             /\ \A n \in DOMAIN edges :
                  Occurrences(StatementRest(i), ForeignKeyClause(edges[n])) = 1
    /\ Contains(Get(files, SchemaFile), join("\n\n", Statements))
    /\ Get(files, IndexFile) = "-- Auto-generated indexes (dynamic)" \o AllIndexStatements(1)

\* C18: a table with two edges, each with its clause and its index.
C18_TableWithTwoEdges ==
  /\ pc = "done"
  /\ \E i \in DOMAIN tables : Len(Get(fks, tables[i].k)) = 2
  /\ Occurrences(Get(files, SchemaFile), "FOREIGN KEY") = 2
  /\ Occurrences(Get(files, IndexFile), "CREATE INDEX") = 2

C20_EverySheetKeepsItsTable ==
  pc = "loaded" =>
    \A i \in DOMAIN book :
      LET tname == SAFE_NAME(book[i].name)
      IN  /\ tname \in Keys(tables)
          /\ [j \in DOMAIN Get(tables, tname) |-> Get(tables, tname)[j].vals]
               = [j \in DOMAIN book[i].cols |-> book[i].cols[j].vals]


\* The rows of df that hold a null in a column whose policy is drop_row
DropRows(df) ==
  {r \in 1..nrows(df) :
     \E i \in DOMAIN df : policy_of(df[i].name) = "drop_row" /\ isna(df[i].vals[r])}

\* The k-th of the rows 1..n that is not in gone
Survivor(n, gone, k) ==
  CHOOSE r \in (1..n) \ gone : Cardinality((1..(r - 1)) \ gone) = k - 1

\* The number of nulls of a column
Nulls(vals) == Cardinality({r \in DOMAIN vals : isna(vals[r])})

\* C21: a table of N rows has, after handle_nulls, N minus the number of
\* distinct rows with a null in some drop_row column (the union of the null
\* rows, not their sum); with one drop_row column of K nulls that is N - K;
\* the rows that stay keep their order.
C21_RowCountIsUnionOfNullRows ==
  [][(pc = "loaded" /\ pc' = "nulls") =>
       \A i \in DOMAIN tables :
         LET df == tables[i].v
             after == tables'[i].v
             gone == DropRows(df)
             dropping == {j \in DOMAIN df : policy_of(df[j].name) = "drop_row"}
         IN  /\ nrows(after) = nrows(df) - Cardinality(gone)
             /\ \A j \in dropping :
                  dropping = {j} => nrows(after) = nrows(df) - Nulls(df[j].vals)
             /\ \A j \in DOMAIN df, k \in 1..nrows(after) :
                  LET was == df[j].vals[Survivor(nrows(df), gone, k)]
                  IN  \/ after[j].vals[k] = was
                      \/ isna(was) /\ policy_of(df[j].name) = "fill_default"]_vars

\* C21: handle_nulls has run on orders whose two columns are both drop_row
\* and share a null row, so that the rows dropped are fewer than the nulls
\* counted, and some row stays.
C21_OverlappingNullRows ==
  /\ pc = "nulls"
  /\ policy_of("customerid") = "drop_row" /\ policy_of("freight") = "drop_row"
  /\ \E s \in Range(book) :
       /\ s.name = "Orders"
       /\ s.cols[2].name = "Freight"
       /\ \E r \in DOMAIN s.cols[1].vals : isna(s.cols[1].vals[r]) /\ isna(s.cols[2].vals[r])
       /\ \E r \in DOMAIN s.cols[1].vals : isna(s.cols[1].vals[r]) /\ ~isna(s.cols[2].vals[r])
       /\ nrows(Get(tables, "orders")) = 1

\* The rows of the child column of rel whose value is not null and not
\* among the values of the parent column
Violations(rel) ==
  LET child_vals == col(Get(tables, rel.child_table), rel.child_col).vals
      parent_vals == col(Get(tables, rel.parent_table), rel.parent_col).vals
  IN  {r \in DOMAIN child_vals :
         ~isna(child_vals[r]) /\ child_vals[r] \notin valueset(parent_vals)}

\* C22: for every declared relationship whose tables and columns are loaded,
\* the finding of check_referential_integrity is PASS when no non-null child
\* value is absent from the parent column and FAIL with the number of such
\* values otherwise; a null child value is no violation.
C22_NullChildValuesAreNotCounted ==
  pc = "checked" =>
    \A k \in DOMAIN ri_findings :
      LET rel == cfg.relationships[k]
          n == Cardinality(Violations(rel))
      IN  ~skipped(rel) =>
            /\ ri_findings[k].mark = IF n = 0 THEN "RI-OK" ELSE "RI-FAIL"
            /\ ri_findings[k].count = n

\* C23: check_referential_integrity is diagnostic only: whatever the data
\* and the declarations, it raises nothing, leaves every loaded table as it
\* was, and puts in ri_findings one finding per declared relationship, in
\* the order declared, which is SKIP exactly when a table or a column of
\* the relationship is not loaded.
C23_IntegrityCheckIsDiagnosticOnly ==
  [][check_referential_integrity =>
       /\ pc' # "raised"
       /\ tables' = tables
       /\ Len(ri_findings') = Len(cfg.relationships)
       /\ \A k \in DOMAIN ri_findings' :
            LET rel == cfg.relationships[k]
                f == ri_findings'[k]
            IN  /\ Relationship(f.child_table, f.child_col, f.parent_table, f.parent_col) = rel
                /\ f.mark = "SKIP" <=> skipped(rel)]_vars

\* The places of table t in the order of insertion
Inserted(t) == {p \in DOMAIN db : db[p] = t}

\* C24: seed_database inserts every loaded table exactly once and, for
\* every foreign-key edge, the parent table before the child table.
C24_ParentsAreSeededFirst ==
  pc = "seeded" =>
    /\ \A i \in DOMAIN tables : Cardinality(Inserted(tables[i].k)) = 1
    /\ \A i \in DOMAIN fks :
         \A e \in Range(fks[i].v) :
           \A c \in Inserted(fks[i].k), p \in Inserted(e.pt) : p < c

\* The statement that sanitize_query returned
Returned == safe_sql.state = "returned"

\* A finished call of sanitize_query
Sanitized == safe_sql.state \in {"returned", "raised"}

WriteVerbs == {"insert", "update", "delete", "drop", "create", "alter", "truncate"}

\* Outside its comments the text holds a semicolon with SQL after it
FurtherSqlAfterSemicolon(q) ==
  LET s == strip_sql_comments(q)
  IN  \E i, j \in DOMAIN s : i < j /\ s[i] = ";" /\ s[j] \notin {";", "\n", "'''"}

\* C25: sanitize_query raises ValueError or returns one statement that
\* begins with SELECT or WITH and holds no forbidden keyword; an empty text,
\* a text that starts with a write or DDL verb, and a text with further SQL
\* after a semicolon are always refused.
C25_ReadOnlyGate ==
  Sanitized =>
    /\ Returned =>
         /\ safe_sql.sql # <<>>
         /\ lower_str(safe_sql.sql[1]) \in {"select", "with"}
         /\ \A i \in DOMAIN safe_sql.sql :
              lower_str(safe_sql.sql[i]) \notin FORBIDDEN_WORDS \cup {";"}
    /\ (\/ raw_sql.sql = <<>>
        \/ raw_sql.sql # <<>> /\ lower_str(raw_sql.sql[1]) \in WriteVerbs
        \/ FurtherSqlAfterSemicolon(raw_sql.sql)) => ~Returned

\* The places of the LIMIT clauses of a text
LimitsOf(s) ==
  {i \in DOMAIN s : lower_str(s[i]) = "limit" /\ i < Len(s) /\ AllDigits(s[i + 1])}

\* C26: a returned query holds a LIMIT clause, and every LIMIT n in it has
\* n <= max_limit, also when the query has several LIMIT clauses.
C26_EveryLimitIsBounded ==
  Returned =>
    /\ LimitsOf(safe_sql.sql) # {}
    /\ \A i \in LimitsOf(safe_sql.sql) : int(safe_sql.sql[i + 1]) <= raw_sql.max_limit

\* C27: run fails gracefully: whatever fails (generation, sanitization, the
\* query, the plan, the history), the call returns a payload that holds
\* "ok", and "error" when ok is false; SQL that is not safe gives ok false
\* and is never executed.
C27_RunNeverRaises ==
  /\ \A k \in DOMAIN payload :
       /\ ~payload[k].raises
       /\ "ok" \in payload[k].keys
       /\ ~payload[k].ok => "error" \in payload[k].keys
       /\ FORBIDDEN(payload[k].raw_sql) => ~payload[k].ok
  /\ \A i \in DOMAIN executed : ~FORBIDDEN(executed[i])

\* C28: when two successive calls of run come to the same sanitized SQL the
\* second is answered from the cache, so no statement is read from the
\* database twice; the cache never holds more than maxsize entries.
C28_SameQueryIsReadOnce ==
  /\ \A i, j \in DOMAIN executed : i # j => executed[i] # executed[j]
  /\ Len(cache) <= maxsize

\* C29: every call of run appends exactly one row to the history, and the
\* success of that row is the ok of the payload of the call, wherever the
\* call fails.
C29_OneHistoryRowPerCall ==
  (\A k \in DOMAIN payload : ~payload[k].raises) =>
    /\ Len(history) = Len(payload)
    /\ \A k \in DOMAIN payload : history[k].success = payload[k].ok

\* The names of the columns the statement of table number i defines
DefinedNames(i) ==
  Range(columns(tables[i].v))
    \cup (IF cfg.add_audit_cols THEN {"created_at", "updated_at"} ELSE {})

\* C30: in every emitted CREATE TABLE statement the column names are
\* pairwise distinct: each name the statement defines (a sheet column, a
\* surrogate key, an audit column) is defined by one line of it only.
C30_ColumnNamesAreDistinct ==
  pc = "schema" =>
    \A i \in DOMAIN tables :
      \A n \in DefinedNames(i) : Occurrences(Statements[i], "\n  " \o n \o " ") = 1
=============================================================================
